---- MODULE Spec2Model ----
(***************************************************************************)
(* Model of services/planner/gemini_stream.py: one call of                 *)
(* GeminiStreamClient.stream, its pump task, its heartbeat task and the    *)
(* transports built by the transport factory, with GeminiTextAccumulator   *)
(* as the fold a caller applies to the yielded events.                     *)
(***************************************************************************)
EXTENDS Integers, Sequences, FiniteSets, TLC

(* ---------------------------------------------------------------------- *)
(* Bounds of the model                                                     *)

\* largest max_retries a configuration is given
MaxRetries == 2
\* most events the scripted transports of one call emit in total
MaxEvents == 3
\* most heartbeat timer expiries in one call
MaxHeartbeats == 1
\* most events pushed to one accumulator
MaxPushes == 3
\* most chunks the backend call of one worker yields
MaxChunks == 2
\* most __aexit__ calls on one transport
MaxExits == 2
\* most commands in one CommandRunner.run call
MaxCommands == 3
\* most active tasks in a LandingDataStore
MaxTasks == 4
\* largest page_size of a list_tasks call that reads page by page
MaxPageSize == 3

\* attempts of a call over GoogleGenerativeAITransport, one worker each
MaxWorkers == 2

(* ---------------------------------------------------------------------- *)
(* Data model                                                              *)

\* text=None of GeminiStreamEvent
NoText == "<None>"

\* last_error: Exception | None = None
NoError == "<None>"

GeminiStreamEvent(kind, txt) == [event |-> kind, text |-> txt]

Chunk(txt) == GeminiStreamEvent("chunk", txt)
Complete == GeminiStreamEvent("complete", NoText)
Heartbeat == GeminiStreamEvent("heartbeat", NoText)
ErrorEvent(msg) == GeminiStreamEvent("error", msg)
EndEvent == GeminiStreamEvent("__end__", NoText)

\* Python truthiness of an Optional[str]
Truthy(txt) == txt /= NoText /\ txt /= ""

\* variant: the kind of the event is not looked at
pushAnyKind(parts, event) ==
    IF Truthy(event.text) THEN Append(parts, event.text) ELSE parts

\* variant: heartbeat events are stitched like chunks
pushHeartbeatsToo(parts, event) ==
    IF event.event \in {"chunk", "heartbeat"} /\ Truthy(event.text)
    THEN Append(parts, event.text)
    ELSE parts

\* GeminiTextAccumulator.push, on the list _parts
push(parts, event) ==
    IF event.event = "chunk" /\ Truthy(event.text)
    THEN Append(parts, event.text)
    ELSE parts

RECURSIVE Join(_)
\* "".join(parts)
Join(parts) == IF parts = <<>> THEN "" ELSE Head(parts) \o Join(Tail(parts))

\* GeminiTextAccumulator.text
text(parts) == Join(parts)

RECURSIVE PushAll(_, _)
\* the consumer loop of the tests: accumulator.push(event) for every yielded event
PushAll(parts, events) ==
    IF events = <<>> THEN parts
    ELSE PushAll(push(parts, Head(events)), Tail(events))

Min(a, b) == IF a <= b THEN a ELSE b

RECURSIVE Pow2(_)
Pow2(n) == IF n = 0 THEN 1 ELSE 2 * Pow2(n - 1)

(* ---------------------------------------------------------------------- *)
(* State                                                                   *)

VARIABLES
    config,             \* GeminiStreamClient._config
    fallback_endpoints, \* the fallback endpoints the caller configured
    factory,            \* which transport_factory the caller passed
    fail_once,          \* the flag of the fail-over test's factory
    pc,                 \* where stream() is
    attempt,            \* stream(): attempt
    last_error,         \* stream(): last_error (its message)
    success,            \* stream(): success
    queue,              \* stream(): queue, the merge channel of the attempt
    pump_task,          \* state of the attempt's pump task
    pump_cancel,        \* pump_task.cancel() was called on a pump not yet done
    awaiting,           \* the task stream() is suspended on in its finally block
    heartbeat_task,     \* state of the attempt's heartbeat task
    endpoint_used,      \* endpoint of the configuration the factory was given
    emitted,            \* history: events the attempt's transport has yielded
    failed,             \* history: the attempt's transport has failed
    started,            \* history: number of attempts started
    failures,           \* history: number of attempts whose transport failed
    factory_endpoints,  \* history: the endpoint the factory was given, per attempt
    base,               \* history: number of events delivered before the attempt
    produced,           \* history: events the transports yielded before failing
    delivered,          \* history: the events yielded to the caller
    sleeps,             \* history: the delays slept by stream()
    events_total,       \* events yielded by the transports of the call
    hb_tasks,           \* history: number of heartbeat tasks created
    alive,              \* the pump and heartbeat tasks of the call that have not finished
    enqueued,           \* history: every item put on the attempt's queue, in order
    pump_exc,           \* exception the attempt's pump task ended with (its message)
    unwound,            \* history: where a close or cancellation reached stream()
    acc_parts,          \* GeminiTextAccumulator._parts of an accumulator fed event by event
    pushed,             \* history: the events pushed to that accumulator
    caller,             \* whether the caller iterates to the end or may stop
    entered,            \* history: __aenter__ calls of the call that have returned
    enters,             \* history: __aenter__ calls the pumps of the call made
    exits,              \* history: __aexit__ calls the pumps of the call made
    beats               \* timer expiries of the heartbeat tasks of the call

\* the variables of GoogleGenerativeAITransport and its worker thread
VARIABLES
    self,               \* the transport object: its _queue, _thread and _loop fields
    channel,            \* items of the asyncio.Queue that __aenter__ created
    scheduled,          \* puts handed to the event loop that it has not run yet
    worker,             \* where the worker thread is in _run_stream
    exc,                \* _run_stream: str(exc) of the exception caught
    consumer,           \* where the task using the transport is
    out,                \* history: the events iter_messages has yielded
    handed,             \* history: the events the worker handed to the loop
    backend,            \* history: how the backend call has gone so far
    joins,              \* history: number of join calls on the worker thread
    exit_calls,         \* history: number of __aexit__ calls
    handed_at_exit      \* history: Len(handed) when __aexit__ first returned

tvars == <<self, channel, scheduled, worker, exc, consumer, out, handed, backend,
           joins, exit_calls, handed_at_exit>>

\* the variables of GeminiEnvironment.build_stream_config
VARIABLES
    environment,        \* the GeminiEnvironment: its override fields
    gemini_defaults,    \* ProjectSettings.gemini
    stream_config,      \* what build_stream_config returned or raised
    settings_pc         \* "new", "loaded" or "built"

svars == <<environment, gemini_defaults, stream_config, settings_pc>>

\* the variables of CommandRunner.run
VARIABLES
    commands,           \* the CommandSpecs run() was called with
    stop_on_failure,    \* CommandRunner._stop_on_failure
    default_timeout,    \* CommandRunner._default_timeout
    results,            \* run(): the list of CommandResults
    position,           \* run(): index in commands of spec, from 1
    run_pc,             \* "new", "loop", "executing", "returned", "raised" or "refused"
    exit_status,        \* the exit status of the automation process, once it has exited
    spawned             \* history: positions of the commands whose process was spawned

rvars == <<commands, stop_on_failure, default_timeout, results, position, run_pc,
           exit_status, spawned>>

\* the variables of the landing API
VARIABLES
    store,              \* the LandingDataStore: its workspaces and its tasks by key
    store_created,      \* history: the store as it was constructed
    walk,               \* a client reading one collection with list_tasks, page by page
    request,            \* the last request to a route
    response,           \* the response to it
    landing_pc          \* "new", "paging" or "serving"

lvars == <<store, store_created, walk, request, response, landing_pc>>

\* the variables of a call of stream() over GoogleGenerativeAITransport, one
\* transport and one worker thread for every attempt
VARIABLES
    tr,                 \* the transport of each attempt: its _queue, queue and worker
    loop_puts,          \* the puts the workers handed to the event loop, not yet run
    merge,              \* the merge queue of the attempt in progress
    visible,            \* history: the events yielded to the caller
    iso_pc,             \* where stream() is
    iso_attempt,        \* number of attempts started
    iso_success,        \* the success flag of the attempt
    iso_pump            \* where the pump task of the attempt is

ivars == <<tr, loop_puts, merge, visible, iso_pc, iso_attempt, iso_success,
           iso_pump>>

\* the variables outside GeminiStreamClient.stream and the accumulator
side == <<tvars, svars, rvars, lvars, ivars>>

stream_vars == <<config, fallback_endpoints, factory, fail_once, pc, attempt,
                 last_error, success, queue, pump_task, pump_cancel, awaiting,
                 heartbeat_task, endpoint_used, emitted, failed, started,
                 failures, factory_endpoints, base, produced, delivered, sleeps,
                 events_total, beats, hb_tasks, alive, enqueued, pump_exc,
                 unwound, acc_parts, pushed, caller, entered, enters, exits>>

\* the history and bookkeeping variables
hist == <<endpoint_used, emitted, failed, started, failures, factory_endpoints,
          base, produced, delivered, sleeps, events_total, beats, hb_tasks,
          alive, enqueued, pump_exc, unwound, acc_parts, pushed, caller, side,
          entered, enters, exits>>

vars == <<stream_vars, side>>

\* the variables outside the transport
not_transport == <<stream_vars, svars, rvars, lvars, ivars>>

\* the variables outside build_stream_config
not_settings == <<stream_vars, tvars, rvars, lvars, ivars>>

\* the variables outside the command runner
not_runner == <<stream_vars, tvars, svars, lvars, ivars>>

\* the variables outside the landing API
not_landing == <<stream_vars, tvars, svars, rvars, ivars>>

\* the variables outside the call over GoogleGenerativeAITransport
not_isolation == <<stream_vars, tvars, svars, rvars, lvars>>

(* ---------------------------------------------------------------------- *)
(* Optional values and the records of project_settings.py and runner.py    *)

\* Optional[T]: None is the empty tuple, a value v is <<v>>
None == <<>>
Some(v) == <<v>>

\* the fields of the GeminiStreamConfig dataclass
GeminiStreamConfigFields ==
    {"api_key", "model", "endpoint", "request_timeout", "heartbeat_interval",
     "max_retries", "backoff_base", "backoff_max", "client_options"}

\* the result of a build_stream_config call: the value returned, or the name
\* of the exception raised
BuildReturned(value) == [raised |-> NoError, value |-> value]
BuildRaised(name) == [raised |-> name, value |-> <<>>]

\* a GeminiEnvironment with no override set
NoOverrides ==
    [model_override |-> None, endpoint_override |-> None,
     fallback_override |-> None, request_timeout_override |-> None,
     heartbeat_override |-> None, max_retries_override |-> None,
     backoff_base_override |-> None, backoff_max_override |-> None]

\* GeminiSettings with the given fallback_endpoints; a string that is split
\* or trimmed is a tuple of characters
GeminiSettings(fallbacks) ==
    [model |-> "models/gemini-1.5-pro", primary_endpoint |-> "wss://primary",
     fallback_endpoints |-> fallbacks, request_timeout_seconds |-> 45,
     heartbeat_interval_seconds |-> 10, max_retries |-> 4,
     backoff |-> [factor |-> 2, max_delay_seconds |-> 60]]

\* no build_stream_config call made
SettingsNew ==
    /\ environment = NoOverrides
    /\ gemini_defaults = GeminiSettings(<<>>)
    /\ stream_config = BuildRaised(NoError)
    /\ settings_pc = "new"

\* before the call: no transport has been built
IsolationNew ==
    /\ tr = [i \in 1..MaxWorkers |->
               [queue |-> 0, channel |-> <<>>, worker |-> "unstarted",
                local |-> 0, chunks |-> 0, abandoned |-> FALSE, late |-> 0,
                ended_by |-> 0]]
    /\ loop_puts = <<>>
    /\ merge = <<>>
    /\ visible = <<>>
    /\ iso_pc = "start"
    /\ iso_attempt = 0
    /\ iso_success = TRUE
    /\ iso_pump = "none"

\* no LandingDataStore constructed
LandingNew ==
    /\ store = [workspaces |-> <<>>, tasks |-> <<>>]
    /\ store_created = [workspaces |-> <<>>, tasks |-> <<>>]
    /\ walk = [branch |-> "main", collection |-> "active", page_size |-> 1,
               cursor |-> None, pages |-> <<>>, done |-> FALSE]
    /\ request = [route |-> "none", workspace |-> "", branch |-> "",
                  collection |-> "active", cursor |-> None, prompt |-> <<>>]
    /\ response = [status |-> 0, tasks |-> <<>>, next_cursor |-> None, job_id |-> <<>>]
    /\ landing_pc = "new"

\* no CommandRunner.run call made
RunnerNew ==
    /\ commands = <<>>
    /\ stop_on_failure = TRUE
    /\ default_timeout = None
    /\ results = <<>>
    /\ position = 1
    /\ run_pc = "new"
    /\ exit_status = None
    /\ spawned = <<>>

(* ---------------------------------------------------------------------- *)
(* Inputs                                                                  *)

\* <<backoff_base, backoff_max>>: the defaults of GeminiStreamConfig, a cap
\* reached at the second retry, a cap below the base
BackoffPairs == {<<1, 30>>, <<2, 3>>, <<3, 2>>}

\* the GeminiStreamConfig values a caller constructs
Configs ==
    {[endpoint |-> "primary",
      heartbeat_interval |-> h,
      max_retries |-> m,
      backoff_base |-> b[1],
      backoff_max |-> b[2]] :
        h \in {0, 1}, m \in 0..MaxRetries, b \in BackoffPairs}

\* fallback_endpoints as the settings loader and the tests hand them over
FallbackLists == {<<>>, <<"secondary">>, <<"secondary", "tertiary">>}

\* the configurations of the calls over a scripted transport: the default
\* backoff; without heartbeats any retry budget, with heartbeats at most one
\* retry
ScriptedConfigs ==
    {c \in Configs : /\ c.backoff_base = 1 /\ c.backoff_max = 30
                     /\ c.heartbeat_interval > 0 => c.max_retries <= 1}

\* the configurations of the calls over a scripted transport whose caller
\* may stop: one retry without heartbeats, no retry with heartbeats
StoppingConfigs ==
    {c \in ScriptedConfigs : c.max_retries = IF c.heartbeat_interval > 0 THEN 0 ELSE 1}

\* The calls explored. "scripted": any StreamingTransport, whose enter,
\* events, end and exit are chosen step by step; "failing": _FailingTransport;
\* "endpoint_aware": the factory of the fail-over test. The scripted calls
\* run with no fallback endpoint, the two test factories with every
\* configuration. The caller iterates to the end ("consuming") or may close
\* the stream or be cancelled ("stopping"): over a scripted transport with
\* the configurations of StoppingConfigs, over the two test factories with
\* every configuration, so with heartbeats and any retry budget.
Calls ==
    {<<"scripted", c, <<>>, "consuming">> : c \in ScriptedConfigs}
    \cup {<<f, c, fb, "consuming">> :
        f \in {"failing", "endpoint_aware"}, c \in Configs, fb \in FallbackLists}
    \cup {<<"scripted", c, <<>>, "stopping">> : c \in StoppingConfigs}
    \cup {<<f, c, <<>>, "stopping">> :
        f \in {"failing", "endpoint_aware"}, c \in Configs}

\* text of the chunk a scripted transport yields as the k-th event of the
\* call: the chunks of one call carry pairwise distinct texts
ChunkText(k) == <<"A", "B", "C", "D", "E", "F">>[(k % 6) + 1]

\* the events a scripted transport may yield as the k-th event of the call
Alphabet(k) == {Chunk(ChunkText(k)), Complete, ErrorEvent("")}

\* str(exc) of the exceptions a scripted transport may raise
EnterMsg == "boom"
FactoryMsg == "refused"
IterMsg == "broken"

\* [primary endpoint] followed by the fallback endpoints
Endpoints == <<config.endpoint>> \o fallback_endpoints

(* ---------------------------------------------------------------------- *)
(* Initial state: stream() entered, before its while loop                  *)

\* GoogleGenerativeAITransport.__init__: no queue, no thread, no loop
TransportNew ==
    /\ self = [queue |-> FALSE, thread |-> FALSE, loop |-> FALSE]
    /\ channel = <<>>
    /\ scheduled = <<>>
    /\ worker = "unstarted"
    /\ exc = NoError
    /\ consumer = "new"
    /\ out = <<>>
    /\ handed = <<>>
    /\ backend = "idle"
    /\ joins = 0
    /\ exit_calls = 0
    /\ handed_at_exit = 0

\* GeminiStreamConfig(...) as the caller writes it: the dataclass has no
\* fallback_endpoints field, so a call that passes that keyword ends in
\* TypeError before a client exists; otherwise stream() can be entered
ConfigBuilt(fallbacks) == IF fallbacks = <<>> THEN "start" ELSE "type_error"

Init ==
    /\ \E call \in Calls :
         /\ factory = call[1]
         /\ config = call[2]
         /\ fallback_endpoints = call[3]
         /\ caller = call[4]
    /\ fail_once = TRUE
    /\ pc = ConfigBuilt(fallback_endpoints)
    /\ attempt = 0
    /\ last_error = NoError
    /\ success = TRUE
    /\ queue = <<>>
    /\ pump_task = "none"
    /\ pump_cancel = FALSE
    /\ awaiting = "none"
    /\ heartbeat_task = "none"
    /\ endpoint_used = ""
    /\ emitted = <<>>
    /\ failed = FALSE
    /\ started = 0
    /\ failures = 0
    /\ factory_endpoints = <<>>
    /\ base = 0
    /\ produced = <<>>
    /\ delivered = <<>>
    /\ sleeps = <<>>
    /\ events_total = 0
    /\ beats = 0
    /\ hb_tasks = 0
    /\ alive = {}
    /\ enqueued = <<>>
    /\ pump_exc = NoError
    /\ unwound = "no"
    /\ acc_parts = <<>>
    /\ pushed = <<>>
    /\ TransportNew
    /\ SettingsNew
    /\ RunnerNew
    /\ LandingNew
    /\ IsolationNew
    /\ entered = 0
    /\ enters = 0
    /\ exits = 0

(* ---------------------------------------------------------------------- *)
(* stream(): the orchestrator                                              *)

\* variant: a heartbeat task whatever the interval
HeartbeatAlways == config.heartbeat_interval >= 0

\* if self._config.heartbeat_interval > 0
HeartbeatEnabled == config.heartbeat_interval > 0

\* a task of the event loop: the pump or the heartbeat task that the
\* attempt with the given number created
Task(kind, number) == <<kind, number>>

\* top of the while loop: fresh queue, pump task and heartbeat task
\* variant: one merge queue for the whole call, kept from attempt to attempt
QueueKept(old) == old

\* queue = asyncio.Queue(): every attempt gets an empty queue of its own
NewQueue(old) == <<>>

StartAttempt ==
    /\ pc = "start"
    /\ queue' = NewQueue(queue)
    /\ pump_task' = "pending"
    /\ pump_cancel' = FALSE
    /\ awaiting' = "none"
    /\ heartbeat_task' = IF HeartbeatEnabled THEN "sleeping" ELSE "none"
    /\ hb_tasks' = IF HeartbeatEnabled THEN hb_tasks + 1 ELSE hb_tasks
    /\ alive' = alive \cup {Task("pump", started + 1)}
                     \cup (IF HeartbeatEnabled
                           THEN {Task("heartbeat", started + 1)} ELSE {})
    /\ enqueued' = <<>>
    /\ pump_exc' = NoError
    /\ success' = TRUE
    /\ pc' = "get"
    /\ endpoint_used' = ""
    /\ emitted' = <<>>
    /\ failed' = FALSE
    /\ started' = started + 1
    /\ base' = Len(delivered)
    /\ UNCHANGED <<config, fallback_endpoints, factory, fail_once, attempt,
                   last_error, failures, factory_endpoints, produced, delivered,
                   sleeps, events_total, beats, unwound, acc_parts, pushed,
                   caller, side, entered, enters, exits>>

\* variant: the text of the error event as it is
ErrorMessageRaw(event) == event.text

\* RuntimeError(event.text or "Unknown Gemini error")
ErrorMessage(event) == IF Truthy(event.text) THEN event.text ELSE "Unknown Gemini error"

\* variant: the error event is yielded like a chunk
BreaksOnEndOnly(event) == event.event = "__end__"

\* variant: complete leaves the loop before it is yielded
BreaksBeforeComplete(event) == event.event \in {"__end__", "error", "complete"}

\* does the inner loop leave on this event (break) instead of yielding it
Breaks(event) == event.event = "__end__" \/ event.event = "error"

\* variant: a LIFO queue, the newest item first
QueueGetNewest(q) == <<q[Len(q)], SubSeq(q, 1, Len(q) - 1)>>

\* variant: a get that loses the item behind the one it returns
QueueGetSkips(q) == <<Head(q), IF Len(q) > 1 THEN Tail(Tail(q)) ELSE <<>>>>

\* asyncio.Queue.get on a non-empty queue: <<the oldest item, the rest>>
QueueGet(q) == <<Head(q), Tail(q)>>

\* variant: the pump task is cancelled but not awaited
PumpNotAwaited == TRUE

\* pump_task.cancel(); with suppress(CancelledError): await pump_task
\* returns once the pump task is done
PumpAwaited == pump_task = "done"

\* variant: the heartbeat task is cancelled but not awaited
HeartbeatNotAwaited == TRUE

\* with suppress(CancelledError): await heartbeat_task returns once the
\* heartbeat task is done
HeartbeatAwaited == heartbeat_task = "cancelled"

\* variant: a finally block that leaves the heartbeat task alone
HeartbeatForgotten(task) == FALSE

\* if heartbeat_task: the attempt has a heartbeat task
HasHeartbeatTask(task) == task /= "none"

\* heartbeat_task.cancel(): the task, suspended in its sleep, is asked to
\* stop and finishes in a later step of the event loop
HeartbeatStop(task) == IF task = "sleeping" THEN "cancelling" ELSE task

\* variant: the budget counts attempts instead of retries
BudgetExhaustedEarly(att) == att + 1 >= config.max_retries

\* variant: one retry too many
BudgetExhaustedLate(att) == att > config.max_retries

\* if attempt >= self._config.max_retries: break
BudgetExhausted(att) == att >= config.max_retries

\* variant: the exponent is the incremented attempt
DelayDoubled(att) == Min(config.backoff_base * Pow2(att), config.backoff_max)

\* min(backoff_base * (2 ** (attempt - 1)), backoff_max), attempt already incremented
Delay(att) == Min(config.backoff_base * Pow2(att - 1), config.backoff_max)

\* variant: the backoff sleep comes before the budget check, so the last
\* failed attempt is followed by a sleep too
SleepsAfterEveryFailure(ok, exhausted) == ~ok

\* whether stream() reaches await asyncio.sleep(delay) after an attempt:
\* not after `if success: return`, not after `if attempt >= max_retries:
\* break`
SleepsAfter(ok, exhausted) == ~ok /\ ~exhausted

\* The finally block is over. Entered by a break (way "cleanup"), stream()
\* goes on behind it with the flag ok: `if success: return`, the budget
\* test and the raise, or attempt += 1 and await asyncio.sleep(delay).
\* Entered by GeneratorExit ("closing") or CancelledError ("cancelling"),
\* the exception leaves stream().
AfterFinally(way, ok) ==
    /\ awaiting' = "none"
    /\ IF way = "cleanup"
       THEN /\ sleeps' = IF SleepsAfter(ok, BudgetExhausted(attempt))
                         THEN Append(sleeps, Delay(attempt + 1))
                         ELSE sleeps
            /\ IF ok
               THEN /\ pc' = "returned"
                    /\ UNCHANGED attempt
               ELSE IF BudgetExhausted(attempt)
               THEN /\ pc' = "raised"
                    /\ UNCHANGED attempt
               ELSE /\ attempt' = attempt + 1
                    /\ pc' = "sleep"
       ELSE /\ pc' = IF way = "closing" THEN "closed" ELSE "cancelled"
            /\ UNCHANGED <<attempt, sleeps>>

\* The finally block from the end of await pump_task on: the await re-raises
\* what the pump task ended with unless it is a CancelledError; otherwise
\* `if heartbeat_task:` heartbeat_task.cancel() and await heartbeat_task,
\* where stream() is suspended until the heartbeat task is done; with no
\* heartbeat task the finally block is over in the same step.
AfterPump(way, ok) ==
    IF pump_exc /= NoError
    THEN /\ pc' = "propagated"
         /\ awaiting' = "none"
         /\ UNCHANGED <<heartbeat_task, attempt, sleeps>>
    ELSE IF HasHeartbeatTask(heartbeat_task)
    THEN /\ heartbeat_task' = HeartbeatStop(heartbeat_task)
         /\ awaiting' = "heartbeat_task"
         /\ pc' = way
         /\ UNCHANGED <<attempt, sleeps>>
    ELSE /\ UNCHANGED heartbeat_task
         /\ AfterFinally(way, ok)

\* The finally block is entered: pump_task.cancel(), then await pump_task,
\* where stream() is suspended until the pump task is done; the await of a
\* pump task that is done already does not suspend.
EnterFinally(way, ok) ==
    /\ pump_cancel' = (pump_task /= "done")
    /\ IF pump_task /= "done"
       THEN /\ awaiting' = "pump_task"
            /\ pc' = way
            /\ UNCHANGED <<heartbeat_task, attempt, sleeps>>
       ELSE AfterPump(way, ok)

\* event = await queue.get(), then yield, or break and the finally block up
\* to its first suspension
GetEvent ==
    /\ pc = "get"
    /\ queue /= <<>>
    /\ LET event == QueueGet(queue)[1]
           ok == IF event.event = "error" THEN FALSE ELSE success
       IN
       /\ queue' = QueueGet(queue)[2]
       /\ IF Breaks(event)
          THEN /\ success' = ok
               /\ last_error' = IF event.event = "error" THEN ErrorMessage(event)
                                ELSE last_error
               /\ EnterFinally("cleanup", ok)
               /\ UNCHANGED delivered
          ELSE /\ pc' = "yielded"
               /\ delivered' = Append(delivered, event)
               /\ UNCHANGED <<pump_cancel, awaiting, success, last_error,
                              heartbeat_task, attempt, sleeps>>
    /\ UNCHANGED <<config, fallback_endpoints, factory, fail_once, pump_task,
                   endpoint_used, emitted, failed, started, failures,
                   factory_endpoints, base, produced, events_total, beats,
                   hb_tasks, alive, enqueued, pump_exc, unwound, acc_parts,
                   pushed, caller, side, entered, enters, exits>>

\* the caller asks for the next event: stream() resumes after its yield
Pull ==
    /\ pc = "yielded"
    /\ pc' = "get"
    /\ UNCHANGED <<config, fallback_endpoints, factory, fail_once, attempt,
                   last_error, success, queue, pump_task, pump_cancel,
                   awaiting, heartbeat_task, hist>>

\* stream(), having left the loop by a break, is resumed from await
\* pump_task once the cancelled pump task has finished, and runs up to its
\* next suspension
Cleanup ==
    /\ pc = "cleanup"
    /\ awaiting = "pump_task"
    /\ PumpAwaited
    /\ AfterPump("cleanup", success)
    /\ UNCHANGED <<config, fallback_endpoints, factory, fail_once, last_error,
                   success, queue, pump_task, pump_cancel, endpoint_used,
                   emitted, failed, started, failures, factory_endpoints, base,
                   produced, delivered, events_total, beats, hb_tasks, alive,
                   enqueued, pump_exc, unwound, acc_parts, pushed, caller, side,
                   entered, enters, exits>>

\* stream() is resumed from await heartbeat_task once the cancelled
\* heartbeat task has finished: the finally block is over
FinallyEnds ==
    /\ pc \in {"cleanup", "closing", "cancelling"}
    /\ awaiting = "heartbeat_task"
    /\ HeartbeatAwaited
    /\ AfterFinally(pc, success)
    /\ UNCHANGED <<config, fallback_endpoints, factory, fail_once, last_error,
                   success, queue, pump_task, pump_cancel, heartbeat_task,
                   endpoint_used, emitted, failed, started, failures,
                   factory_endpoints, base, produced, delivered, events_total,
                   beats, hb_tasks, alive, enqueued, pump_exc, unwound,
                   acc_parts, pushed, caller, side, entered, enters, exits>>

\* await asyncio.sleep(delay) returns: next iteration of the while loop
Wake ==
    /\ pc = "sleep"
    /\ pc' = "start"
    /\ UNCHANGED <<config, fallback_endpoints, factory, fail_once, attempt,
                   last_error, success, queue, pump_task, pump_cancel,
                   awaiting, heartbeat_task, hist>>

\* the caller closes the generator suspended at its yield: GeneratorExit is
\* raised there and the finally block runs up to its first suspension
Close ==
    /\ caller = "stopping"
    /\ pc = "yielded"
    /\ EnterFinally("closing", success)
    /\ unwound' = "close"
    /\ UNCHANGED <<config, fallback_endpoints, factory, fail_once, last_error,
                   success, queue, pump_task, endpoint_used, emitted, failed,
                   started, failures, factory_endpoints, base, produced,
                   delivered, events_total, beats, hb_tasks, alive, enqueued,
                   pump_exc, acc_parts, pushed, caller, side, entered, enters,
                   exits>>

\* variant: a cancellation during the backoff sleep is swallowed and the
\* loop goes on
CancelSwallowedInSleep(at) == IF at = "get" THEN "cancelling" ELSE "start"

\* where stream() goes when the task consuming it is cancelled while
\* stream() is suspended at `at`: CancelledError is raised at await
\* queue.get(), inside the try, or at await asyncio.sleep(delay), outside it
CancelTarget(at) == IF at = "get" THEN "cancelling" ELSE "cancelled"

\* the consuming task is cancelled while stream() awaits queue.get(), where
\* the finally block runs up to its first suspension, or asyncio.sleep(delay)
Cancel ==
    /\ caller = "stopping"
    /\ pc \in {"get", "sleep"}
    /\ pump_task /= "pending"
    /\ IF CancelTarget(pc) = "cancelling"
       THEN EnterFinally("cancelling", success)
       ELSE /\ pc' = CancelTarget(pc)
            /\ UNCHANGED <<pump_cancel, awaiting, heartbeat_task, attempt,
                           sleeps>>
    /\ unwound' = pc
    /\ UNCHANGED <<config, fallback_endpoints, factory, fail_once, last_error,
                   success, queue, pump_task, endpoint_used, emitted, failed,
                   started, failures, factory_endpoints, base, produced,
                   delivered, events_total, beats, hb_tasks, alive, enqueued,
                   pump_exc, acc_parts, pushed, caller, side, entered, enters,
                   exits>>

\* the consuming task is cancelled while stream(), having left the loop by a
\* break, is suspended in its finally block at await pump_task, also when
\* the pump task has finished since and stream() is not resumed yet, or at
\* await heartbeat_task: the CancelledError is raised inside
\* contextlib.suppress(asyncio.CancelledError), which swallows it, and
\* stream() goes on
CancelInCleanup ==
    /\ caller = "stopping"
    /\ pc = "cleanup"
    /\ awaiting \in {"pump_task", "heartbeat_task"}
    /\ unwound /= "cleanup"
    /\ unwound' = "cleanup"
    /\ UNCHANGED <<config, fallback_endpoints, factory, fail_once, pc, attempt,
                   last_error, success, queue, pump_task, pump_cancel, awaiting,
                   heartbeat_task, endpoint_used, emitted, failed, started,
                   failures, factory_endpoints, base, produced, delivered,
                   sleeps, events_total, beats, hb_tasks, alive, enqueued,
                   pump_exc, acc_parts, pushed, caller, side, entered, enters,
                   exits>>

\* stream(), in the finally block entered by GeneratorExit or
\* CancelledError, is resumed from await pump_task once the cancelled pump
\* task has finished, and runs up to its next suspension
Unwind ==
    /\ pc \in {"closing", "cancelling"}
    /\ awaiting = "pump_task"
    /\ PumpAwaited
    /\ AfterPump(pc, success)
    /\ UNCHANGED <<config, fallback_endpoints, factory, fail_once, last_error,
                   success, queue, pump_task, pump_cancel, endpoint_used,
                   emitted, failed, started, failures, factory_endpoints, base,
                   produced, delivered, events_total, beats, hb_tasks, alive,
                   enqueued, pump_exc, unwound, acc_parts, pushed, caller, side,
                   entered, enters, exits>>

(* ---------------------------------------------------------------------- *)
(* _pump_events(): the pump task of one attempt                            *)

\* transport = factory(self._config, request): the configuration handed to
\* the factory for the attempt with 0-based index att
FactoryConfig(att) == config

\* the events _EndpointAwareTransport(endpoint, fail=False) yields
EndpointAwareEvents(endpoint) == <<Chunk(endpoint), Complete>>

\* variant: the except clause covers the async for only, not factory and enter
PumpCatchesProduction(msg) == msg = IterMsg

\* variant: no except clause
PumpCatchesNothing(msg) == FALSE

\* except Exception as exc: the exceptions the transports raise are
\* RuntimeErrors, which the clause catches whatever their message
PumpCatches(msg) == TRUE

\* an exception with str(exc) = msg reaches the try statement of the pump:
\* except Exception: put error(str(exc)); finally: put __end__. An exception
\* the except clause does not catch ends the pump task after the finally.
PumpFails(msg) ==
    /\ IF PumpCatches(msg)
       THEN /\ queue' = queue \o <<ErrorEvent(msg), EndEvent>>
            /\ enqueued' = enqueued \o <<ErrorEvent(msg), EndEvent>>
            /\ pump_exc' = NoError
       ELSE /\ queue' = Append(queue, EndEvent)
            /\ enqueued' = Append(enqueued, EndEvent)
            /\ pump_exc' = msg
    /\ pump_task' = "done"
    /\ alive' = alive \ {Task("pump", started)}

\* variant: a pump without the finally clause that puts __end__
PumpEndsSilently ==
    /\ UNCHANGED <<queue, enqueued>>
    /\ pump_exc' = NoError
    /\ pump_task' = "done"
    /\ alive' = alive \ {Task("pump", started)}

\* finally: put __end__, with no exception on the way
PumpEnds ==
    /\ queue' = Append(queue, EndEvent)
    /\ enqueued' = Append(enqueued, EndEvent)
    /\ pump_exc' = NoError
    /\ pump_task' = "done"
    /\ alive' = alive \ {Task("pump", started)}

\* history: the transport of the attempt fails
MarkFailed ==
    /\ failed' = TRUE
    /\ failures' = IF failed THEN failures ELSE failures + 1

\* the first step of the pump task, which runs before stream() is resumed:
\* transport = factory(self._config, request), which may raise, then async
\* with transport invokes __aenter__. The __aenter__ of the two test
\* transports returns or raises without suspending; that of a scripted
\* transport is left in progress
PumpStart ==
    /\ pump_task = "pending"
    /\ LET conf == FactoryConfig(attempt)
           Entered == /\ pump_task' = "streaming"
                      /\ entered' = entered + 1
                      /\ UNCHANGED <<queue, enqueued, pump_exc, failed, failures,
                                     alive>>
           Raised(msg) == /\ PumpFails(msg)
                          /\ MarkFailed
                          /\ UNCHANGED entered
       IN /\ endpoint_used' = conf.endpoint
          /\ factory_endpoints' = Append(factory_endpoints, conf.endpoint)
          /\ CASE factory = "failing" ->
                    /\ Raised(EnterMsg)
                    /\ enters' = enters + 1
                    /\ UNCHANGED fail_once
               [] factory = "endpoint_aware" ->
                    /\ enters' = enters + 1
                    /\ IF conf.endpoint = "primary" /\ fail_once
                       THEN /\ fail_once' = FALSE
                            /\ Raised("boom:" \o conf.endpoint)
                       ELSE /\ Entered
                            /\ UNCHANGED fail_once
               [] factory = "scripted" ->
                    /\ \/ /\ pump_task' = "entering"
                          /\ enters' = enters + 1
                          /\ UNCHANGED <<queue, enqueued, pump_exc, failed,
                                         failures, alive, entered>>
                       \/ /\ Raised(FactoryMsg)
                          /\ UNCHANGED enters
                    /\ UNCHANGED fail_once
    /\ UNCHANGED <<config, fallback_endpoints, factory, pc, attempt, last_error,
                   success, pump_cancel, awaiting, heartbeat_task, emitted,
                   started, base, produced, delivered, sleeps, events_total,
                   beats, hb_tasks, unwound, acc_parts, pushed, caller, side,
                   exits>>

\* async with transport: the __aenter__ of a scripted transport returns or
\* raises; the with statement calls __aexit__ only when __aenter__ has
\* returned
PumpEnter ==
    /\ pump_task = "entering"
    /\ ~pump_cancel
    /\ \/ /\ pump_task' = "streaming"
          /\ entered' = entered + 1
          /\ UNCHANGED <<queue, enqueued, pump_exc, failed, failures, alive>>
       \/ /\ PumpFails(EnterMsg)
          /\ MarkFailed
          /\ UNCHANGED entered
    /\ UNCHANGED <<config, fallback_endpoints, factory, fail_once, pc, attempt,
                   last_error, success, pump_cancel, awaiting, heartbeat_task,
                   endpoint_used, emitted, started, factory_endpoints, base,
                   produced, delivered, sleeps, events_total, beats, hb_tasks,
                   unwound, acc_parts, pushed, caller, side, enters, exits>>

\* the events the transport of the attempt in progress may yield next
NextEvents ==
    CASE factory = "scripted" ->
           IF events_total < MaxEvents THEN Alphabet(events_total) ELSE {}
      [] factory = "endpoint_aware" ->
           LET script == EndpointAwareEvents(endpoint_used) IN
           IF Len(emitted) < Len(script) THEN {script[Len(emitted) + 1]} ELSE {}
      [] OTHER -> {}

\* async for event in transport.iter_messages(): await queue.put(event)
PumpEvent ==
    /\ pump_task = "streaming"
    /\ ~pump_cancel
    /\ \E event \in NextEvents :
         /\ queue' = Append(queue, event)
         /\ enqueued' = Append(enqueued, event)
         /\ emitted' = Append(emitted, event)
         /\ produced' = IF failed \/ event.event = "error" THEN produced
                        ELSE Append(produced, event)
         /\ IF event.event = "error" THEN MarkFailed
            ELSE UNCHANGED <<failed, failures>>
    /\ events_total' = events_total + 1
    /\ UNCHANGED <<config, fallback_endpoints, factory, fail_once, pc, attempt,
                   last_error, success, pump_task, pump_cancel, awaiting,
                   heartbeat_task, endpoint_used, started, factory_endpoints,
                   base, delivered, sleeps, beats, hb_tasks, alive, pump_exc,
                   unwound, acc_parts, pushed, caller, side, entered, enters,
                   exits>>

\* iter_messages() ends or raises, __aexit__ returns or raises
PumpFinish ==
    /\ pump_task = "streaming"
    /\ ~pump_cancel
    /\ \/ /\ factory = "scripted" \/ NextEvents = {}
          /\ PumpEnds
          /\ UNCHANGED <<failed, failures>>
       \/ /\ factory = "scripted"
          /\ PumpFails(IterMsg)
          /\ MarkFailed
    /\ exits' = exits + 1
    /\ UNCHANGED <<config, fallback_endpoints, factory, fail_once, pc, attempt,
                   last_error, success, pump_cancel, awaiting, heartbeat_task,
                   endpoint_used, emitted, started, factory_endpoints, base,
                   produced, delivered, sleeps, events_total, beats, hb_tasks,
                   unwound, acc_parts, pushed, caller, side, entered, enters>>

\* CancelledError delivered to the pump: while __aenter__ is in progress it
\* is interrupted and only the finally block runs; inside async with
\* __aexit__ runs, returning or raising, then the finally block. An
\* exception __aexit__ raises replaces the CancelledError and reaches the
\* except clause: the transport of the attempt has failed
PumpCancelled ==
    /\ pump_task \in {"entering", "streaming"}
    /\ pump_cancel
    /\ \/ /\ PumpEnds
          /\ UNCHANGED <<failed, failures>>
       \/ /\ factory = "scripted"
          /\ pump_task = "streaming"
          /\ PumpFails(IterMsg)
          /\ MarkFailed
    /\ pump_cancel' = FALSE
    /\ exits' = IF pump_task = "streaming" THEN exits + 1 ELSE exits
    /\ UNCHANGED <<config, fallback_endpoints, factory, fail_once, pc, attempt,
                   last_error, success, awaiting, heartbeat_task, endpoint_used,
                   emitted, started, factory_endpoints, base, produced,
                   delivered, sleeps, events_total, beats, hb_tasks, unwound,
                   acc_parts, pushed, caller, side, entered, enters>>

(* ---------------------------------------------------------------------- *)
(* _emit_heartbeats(): the heartbeat task of one attempt                   *)

\* variant: a sleep that a cancellation of the task does not interrupt
SleepShielded(task) == task \in {"sleeping", "cancelling"}

\* await asyncio.sleep(interval) returns when the timer fires in a task no
\* cancellation was delivered to; in a cancelled task it raises
\* CancelledError instead
SleepReturns(task) == task = "sleeping"

\* await asyncio.sleep(interval) returns; put heartbeat
HeartbeatTick ==
    /\ SleepReturns(heartbeat_task)
    /\ pump_task /= "pending"
    /\ beats < MaxHeartbeats
    /\ queue' = Append(queue, Heartbeat)
    /\ enqueued' = Append(enqueued, Heartbeat)
    /\ beats' = beats + 1
    /\ UNCHANGED <<config, fallback_endpoints, factory, fail_once, pc, attempt,
                   last_error, success, pump_task, pump_cancel, awaiting,
                   heartbeat_task, endpoint_used, emitted, failed, started,
                   failures, factory_endpoints, base, produced, delivered,
                   sleeps, events_total, hb_tasks, alive, pump_exc, unwound,
                   acc_parts, pushed, caller, side, entered, enters, exits>>

\* the CancelledError of heartbeat_task.cancel() is raised in the heartbeat
\* task at await asyncio.sleep(interval), where nothing catches it: the task
\* is done, cancelled
HeartbeatCancelled ==
    /\ heartbeat_task = "cancelling"
    /\ heartbeat_task' = "cancelled"
    /\ alive' = alive \ {Task("heartbeat", started)}
    /\ UNCHANGED <<config, fallback_endpoints, factory, fail_once, pc, attempt,
                   last_error, success, queue, pump_task, pump_cancel, awaiting,
                   endpoint_used, emitted, failed, started, failures,
                   factory_endpoints, base, produced, delivered, sleeps,
                   events_total, beats, hb_tasks, enqueued, pump_exc, unwound,
                   acc_parts, pushed, caller, side, entered, enters, exits>>

(* ---------------------------------------------------------------------- *)

Next ==
    \/ StartAttempt
    \/ GetEvent
    \/ Pull
    \/ Cleanup
    \/ Wake
    \/ Close
    \/ Cancel
    \/ CancelInCleanup
    \/ Unwind
    \/ FinallyEnds
    \/ PumpStart
    \/ PumpEnter
    \/ PumpEvent
    \/ PumpFinish
    \/ PumpCancelled
    \/ HeartbeatTick
    \/ HeartbeatCancelled

Spec == Init /\ [][Next]_vars

\* The calls whose caller iterates to the end, under the scheduling of the
\* event loop: a step of stream() or of the pump task that is ready to run
\* does run, the timer of the backoff sleep fires, the caller asks for the
\* next event, and a transport that is producing yields its next event or
\* comes to the end of its production. The heartbeat timer is given no
\* fairness. The calls are those that reach stream(). Scripted transports
\* run with heartbeats in the calls without retry and without heartbeats
\* with every retry budget; the two test factories run with every
\* configuration.
StreamFairInit ==
    /\ Init
    /\ pc = "start"
    /\ caller = "consuming"
    /\ factory = "scripted" /\ config.heartbeat_interval > 0
           => config.max_retries = 0

StreamFairNext ==
    \/ StartAttempt
    \/ GetEvent
    \/ Pull
    \/ Cleanup
    \/ FinallyEnds
    \/ Wake
    \/ PumpStart
    \/ PumpEnter
    \/ PumpEvent
    \/ PumpFinish
    \/ PumpCancelled
    \/ HeartbeatTick
    \/ HeartbeatCancelled

StreamFairSpec ==
    /\ StreamFairInit
    /\ [][StreamFairNext]_vars
    /\ WF_vars(StartAttempt)
    /\ WF_vars(GetEvent)
    /\ WF_vars(Pull)
    /\ WF_vars(Cleanup)
    /\ WF_vars(FinallyEnds)
    /\ WF_vars(Wake)
    /\ WF_vars(PumpStart)
    /\ WF_vars(PumpEnter)
    /\ WF_vars(PumpEvent)
    /\ WF_vars(PumpFinish)
    /\ WF_vars(PumpCancelled)
    /\ WF_vars(HeartbeatCancelled)

(* ---------------------------------------------------------------------- *)
(* GeminiTextAccumulator on its own: any events pushed one by one          *)

\* the events pushed: chunks with a text, with an empty text and with no
\* text, and events of the other kinds with and without a text
PushEvents ==
    {Chunk("A"), Chunk("B"), Chunk(""), Chunk(NoText), Heartbeat,
     GeminiStreamEvent("heartbeat", "h"), Complete, ErrorEvent("x"), EndEvent}

\* a fresh accumulator, beside a stream() call that is not started
AccumulatorInit ==
    /\ Init
    /\ factory = "scripted"
    /\ config.heartbeat_interval = 0
    /\ config.max_retries = 0
    /\ caller = "consuming"

\* accumulator.push(event)
AccumulatorPush ==
    /\ Len(pushed) < MaxPushes
    /\ \E event \in PushEvents :
         /\ acc_parts' = push(acc_parts, event)
         /\ pushed' = Append(pushed, event)
    /\ UNCHANGED <<config, fallback_endpoints, factory, fail_once, pc, attempt,
                   last_error, success, queue, pump_task, pump_cancel, awaiting,
                   heartbeat_task, endpoint_used, emitted, failed, started,
                   failures, factory_endpoints, base, produced, delivered,
                   sleeps, events_total, beats, hb_tasks, alive, enqueued,
                   pump_exc, unwound, caller, side, entered, enters, exits>>

AccumulatorSpec == AccumulatorInit /\ [][AccumulatorPush]_vars

(* ---------------------------------------------------------------------- *)
(* GoogleGenerativeAITransport: the task using the transport, the worker   *)
(* thread running _run_stream, and the event loop running the puts the     *)
(* worker hands over                                                       *)

\* str(exc) of the exceptions the backend SDK raises
SetupMsg == "bad setup"
BackendMsg == "backend broke"

\* a transport not entered yet, beside a stream() call that is not started
TransportInit ==
    /\ Init
    /\ factory = "scripted"
    /\ config.heartbeat_interval = 0
    /\ config.max_retries = 0
    /\ caller = "consuming"

\* threading.Thread.is_alive() of the worker
IsAlive == worker \notin {"unstarted", "done"}

\* variant: __aexit__ keeps self._thread
ClearedKeepsThread == [queue |-> FALSE, thread |-> TRUE, loop |-> FALSE]

\* self._thread = None; self._queue = None; self._loop = None
Cleared == [queue |-> FALSE, thread |-> FALSE, loop |-> FALSE]

\* __aenter__: the loop, a fresh queue, the worker thread started
TransportEnter ==
    /\ consumer = "new"
    /\ self' = [queue |-> TRUE, thread |-> TRUE, loop |-> TRUE]
    /\ channel' = <<>>
    /\ worker' = "start"
    /\ consumer' = "reading"
    /\ UNCHANGED <<scheduled, exc, out, handed, backend, joins, exit_calls,
                   handed_at_exit, not_transport>>

\* iter_messages: event = await self._queue.get(); break on __end__, else yield
IterMessages ==
    /\ consumer = "reading"
    /\ self.queue
    /\ channel /= <<>>
    /\ LET event == QueueGet(channel)[1] IN
       /\ channel' = QueueGet(channel)[2]
       /\ IF event.event = "__end__"
          THEN consumer' = "ended" /\ UNCHANGED out
          ELSE out' = Append(out, event) /\ UNCHANGED consumer
    /\ UNCHANGED <<self, scheduled, worker, exc, handed, backend, joins,
                   exit_calls, handed_at_exit, not_transport>>

\* __aexit__, called when iteration has ended, when the task is cancelled
\* while it waits for the next item, or once more afterwards: join the
\* worker if it is alive, else clear the fields at once
TransportExit ==
    /\ consumer \in {"reading", "ended", "exited"}
    /\ exit_calls < MaxExits
    /\ exit_calls' = exit_calls + 1
    /\ IF self.thread /\ IsAlive
       THEN /\ consumer' = "joining"
            /\ joins' = joins + 1
            /\ UNCHANGED <<self, handed_at_exit>>
       ELSE /\ consumer' = "exited"
            /\ self' = Cleared
            /\ handed_at_exit' = IF exit_calls = 0 THEN Len(handed) ELSE handed_at_exit
            /\ UNCHANGED joins
    /\ UNCHANGED <<channel, scheduled, worker, exc, out, handed, backend,
                   not_transport>>

\* variant: join() without a timeout
JoinedNoTimeout(timed_out) == worker = "done"

\* self._thread.join(timeout=0.1) returns: the worker has finished or the
\* timeout has elapsed
Joined(timed_out) == worker = "done" \/ timed_out

\* the join of __aexit__ returns and the fields are cleared
JoinReturns ==
    /\ consumer = "joining"
    /\ \E timed_out \in BOOLEAN : Joined(timed_out)
    /\ consumer' = "exited"
    /\ self' = Cleared
    /\ handed_at_exit' = IF exit_calls = 1 THEN Len(handed) ELSE handed_at_exit
    /\ UNCHANGED <<channel, scheduled, worker, exc, out, handed, backend, joins,
                   exit_calls, not_transport>>

\* _run_coro_threadsafe(queue.put(event), loop): the put is scheduled on the
\* loop, the worker does not wait for it
Hand(event) ==
    /\ handed' = Append(handed, event)
    /\ scheduled' = Append(scheduled, event)

\* _run_stream: queue = self._queue; loop = self._loop; return if one is None
WorkerStart ==
    /\ worker = "start"
    /\ worker' = IF self.queue /\ self.loop THEN "setup" ELSE "finally"
    /\ UNCHANGED <<self, channel, scheduled, exc, consumer, out, handed, backend,
                   joins, exit_calls, handed_at_exit, not_transport>>

\* _import_genai, configure, GenerativeModel, generate_content: the backend
\* call is set up or raises
WorkerSetup ==
    /\ worker = "setup"
    /\ \/ worker' = "iterating" /\ backend' = "streaming" /\ UNCHANGED exc
       \/ worker' = "except" /\ backend' = "raised" /\ exc' = SetupMsg
    /\ UNCHANGED <<self, channel, scheduled, consumer, out, handed, joins,
                   exit_calls, handed_at_exit, not_transport>>

\* the chunk events among the events
Chunks(events) == SelectSeq(events, LAMBDA e : e.event = "chunk")

\* for chunk in stream: the backend yields a chunk, handed over converted
WorkerChunk ==
    /\ worker = "iterating"
    /\ Len(Chunks(handed)) < MaxChunks
    /\ Hand(Chunk(ChunkText(Len(Chunks(handed)))))
    /\ UNCHANGED <<self, channel, worker, exc, consumer, out, backend, joins,
                   exit_calls, handed_at_exit, not_transport>>

\* the backend iteration ends: complete is handed over
WorkerComplete ==
    /\ worker = "iterating"
    /\ Hand(Complete)
    /\ worker' = "finally"
    /\ backend' = "ended"
    /\ UNCHANGED <<self, channel, exc, consumer, out, joins, exit_calls,
                   handed_at_exit, not_transport>>

\* the backend iteration raises
WorkerRaise ==
    /\ worker = "iterating"
    /\ worker' = "except"
    /\ backend' = "raised"
    /\ exc' = BackendMsg
    /\ UNCHANGED <<self, channel, scheduled, consumer, out, handed, joins,
                   exit_calls, handed_at_exit, not_transport>>

\* except Exception: queue = self._queue; loop = self._loop, read again; the
\* error event is made only if both are set
WorkerExceptRead ==
    /\ worker = "except"
    /\ worker' = IF self.queue /\ self.loop THEN "except_put" ELSE "finally"
    /\ UNCHANGED <<self, channel, scheduled, exc, consumer, out, handed, backend,
                   joins, exit_calls, handed_at_exit, not_transport>>

\* error(str(exc)) is handed over through the queue and loop read before,
\* whatever __aexit__ did to the fields since
WorkerExceptPut ==
    /\ worker = "except_put"
    /\ Hand(ErrorEvent(exc))
    /\ worker' = "finally"
    /\ UNCHANGED <<self, channel, exc, consumer, out, backend, joins, exit_calls,
                   handed_at_exit, not_transport>>

\* finally: queue = self._queue; loop = self._loop, read again; __end__ is
\* made only if both are set
WorkerFinallyRead ==
    /\ worker = "finally"
    /\ worker' = IF self.queue /\ self.loop THEN "finally_put" ELSE "returning"
    /\ UNCHANGED <<self, channel, scheduled, exc, consumer, out, handed, backend,
                   joins, exit_calls, handed_at_exit, not_transport>>

\* __end__ is handed over through the queue and loop read before
WorkerFinallyPut ==
    /\ worker = "finally_put"
    /\ Hand(EndEvent)
    /\ worker' = "returning"
    /\ UNCHANGED <<self, channel, exc, consumer, out, backend, joins, exit_calls,
                   handed_at_exit, not_transport>>

\* _run_stream returns and the thread ends: is_alive() is true until then
WorkerReturn ==
    /\ worker = "returning"
    /\ worker' = "done"
    /\ UNCHANGED <<self, channel, scheduled, exc, consumer, out, handed, backend,
                   joins, exit_calls, handed_at_exit, not_transport>>

\* variant: the loop runs the newest scheduled put first
NextPutNewest(puts) == <<puts[Len(puts)], SubSeq(puts, 1, Len(puts) - 1)>>

\* the event loop runs its callbacks in the order call_soon_threadsafe got
\* them: <<the put to run, the puts left>>
NextPut(puts) == <<Head(puts), Tail(puts)>>

\* the event loop, not blocked in join, runs a scheduled queue.put
LoopRunsPut ==
    /\ scheduled /= <<>>
    /\ consumer /= "joining"
    /\ channel' = Append(channel, NextPut(scheduled)[1])
    /\ scheduled' = NextPut(scheduled)[2]
    /\ UNCHANGED <<self, worker, exc, consumer, out, handed, backend, joins,
                   exit_calls, handed_at_exit, not_transport>>

TransportNext ==
    \/ TransportEnter
    \/ IterMessages
    \/ TransportExit
    \/ JoinReturns
    \/ WorkerStart
    \/ WorkerSetup
    \/ WorkerChunk
    \/ WorkerComplete
    \/ WorkerRaise
    \/ WorkerExceptRead
    \/ WorkerExceptPut
    \/ WorkerFinallyRead
    \/ WorkerFinallyPut
    \/ WorkerReturn
    \/ LoopRunsPut

TransportSpec == TransportInit /\ [][TransportNext]_vars

\* the timeout of join is a timer: a join that can return does return
TransportFairSpec == TransportSpec /\ WF_vars(JoinReturns)

(* ---------------------------------------------------------------------- *)
(* GeminiEnvironment.build_stream_config                                   *)

\* the values of GEMINI_FALLBACK_ENDPOINTS, as tuples of characters:
\* "", "f1, f2", " ,a,,b ", ",", "\ta\n" and "a,\tb"
CsvValues ==
    {<<>>,
     <<"f", "1", ",", " ", "f", "2">>,
     <<" ", ",", "a", ",", ",", "b", " ">>,
     <<",">>,
     <<"\t", "a", "\n">>,
     <<"a", ",", "\t", "b">>}

\* the GeminiEnvironment instances: every override unset, set to a falsy
\* value where the type has one, or set to another value
Environments ==
    [model_override : {None, Some(""), Some("models/test-overrides")},
     endpoint_override : {None, Some(""), Some("wss://override-endpoint")},
     fallback_override : {None} \cup {Some(v) : v \in CsvValues},
     request_timeout_override : {None, Some(99)},
     heartbeat_override : {None, Some(0), Some(7)},
     max_retries_override : {None, Some(0), Some(6)},
     backoff_base_override : {None, Some(3)},
     backoff_max_override : {None, Some(120)}]

\* the gemini sections of the project settings
Defaults == {GeminiSettings(<<>>), GeminiSettings(<<<<"f", "a">>, <<"f", "b">>>>)}

\* str.split(","): the segments between the commas, at least one
RECURSIVE split(_)
split(value) ==
    IF \A i \in 1..Len(value) : value[i] /= ","
    THEN <<value>>
    ELSE LET i == CHOOSE k \in 1..Len(value) :
                      value[k] = "," /\ \A j \in 1..(k - 1) : value[j] /= ","
         IN <<SubSeq(value, 1, i - 1)>> \o split(SubSeq(value, i + 1, Len(value)))

\* the characters for which str.isspace() holds, among those of the inputs:
\* space, tab, newline, carriage return, form feed, and, written by their
\* code points, the vertical tab, the file separator and the no-break space
Whitespace == {" ", "\t", "\n", "\r", "\f", "U+000B", "U+001C", "U+00A0"}

\* the segment without the leading and trailing characters that are in spaces
RECURSIVE StripOf(_, _)
StripOf(segment, spaces) ==
    IF segment = <<>> THEN <<>>
    ELSE IF Head(segment) \in spaces THEN StripOf(Tail(segment), spaces)
    ELSE IF segment[Len(segment)] \in spaces
         THEN StripOf(SubSeq(segment, 1, Len(segment) - 1), spaces)
    ELSE segment

\* str.strip(): without the leading and trailing whitespace
strip(segment) == StripOf(segment, Whitespace)

\* _split_csv: () for None or "", else the stripped segments that are not empty
split_csv(value) ==
    IF value = None \/ value[1] = <<>> THEN <<>>
    ELSE LET parts == [i \in 1..Len(split(value[1])) |-> strip(split(value[1])[i])]
         IN SelectSeq(parts, LAMBDA part : part /= <<>>)

\* x or y for an Optional[str] x
Or(x, y) == IF x /= None /\ x[1] /= "" THEN x[1] ELSE y

\* x if x is not None else y
IfNotNone(x, y) == IF x /= None THEN x[1] ELSE y

\* the keyword arguments build_stream_config passes to GeminiStreamConfig
StreamConfigArguments(env, defaults) ==
    [api_key |-> "test-key",
     model |-> Or(env.model_override, defaults.model),
     endpoint |-> Or(env.endpoint_override, defaults.primary_endpoint),
     request_timeout |-> IfNotNone(env.request_timeout_override,
                                   defaults.request_timeout_seconds),
     heartbeat_interval |-> IfNotNone(env.heartbeat_override,
                                      defaults.heartbeat_interval_seconds),
     max_retries |-> IfNotNone(env.max_retries_override, defaults.max_retries),
     backoff_base |-> IfNotNone(env.backoff_base_override, defaults.backoff.factor),
     backoff_max |-> IfNotNone(env.backoff_max_override,
                               defaults.backoff.max_delay_seconds),
     fallback_endpoints |-> IF env.fallback_override /= None
                            THEN split_csv(env.fallback_override)
                            ELSE defaults.fallback_endpoints]

\* GeminiStreamConfig(**arguments): the generated __init__ raises TypeError
\* for a keyword that is not a field, else the instance has the arguments
\* (client_options, not passed, keeps its default None)
GeminiStreamConfigNew(arguments) ==
    IF DOMAIN arguments \subseteq GeminiStreamConfigFields
    THEN BuildReturned(arguments)
    ELSE BuildRaised("TypeError")

build_stream_config(env, defaults) ==
    GeminiStreamConfigNew(StreamConfigArguments(env, defaults))

\* a run that is not in GeminiStreamClient.stream, the accumulator or the
\* transport
SettingsInit ==
    /\ Init
    /\ factory = "scripted"
    /\ config.heartbeat_interval = 0
    /\ config.max_retries = 0
    /\ caller = "consuming"

\* env = GeminiEnvironment(); settings = ProjectSettings.load()
LoadEnvironment ==
    /\ settings_pc = "new"
    /\ environment' \in Environments
    /\ gemini_defaults' \in Defaults
    /\ settings_pc' = "loaded"
    /\ UNCHANGED <<stream_config, not_settings>>

\* config = env.build_stream_config(settings)
BuildStreamConfig ==
    /\ settings_pc = "loaded"
    /\ stream_config' = build_stream_config(environment, gemini_defaults)
    /\ settings_pc' = "built"
    /\ UNCHANGED <<environment, gemini_defaults, not_settings>>

SettingsNext ==
    \/ LoadEnvironment
    \/ BuildStreamConfig

SettingsSpec == SettingsInit /\ [][SettingsNext]_vars

(* ---------------------------------------------------------------------- *)
(* CommandRunner.run: the commands of one call, executed one by one        *)

\* CommandSpec: the label is the position in the list
CommandSpec(label, allow_failure, timeout) ==
    [label |-> label, allow_failure |-> allow_failure, timeout |-> timeout]

\* the command lists of up to MaxCommands commands
CommandLists ==
    UNION {[1..n -> BOOLEAN \X {None, Some(5)}] : n \in 0..MaxCommands}

\* CommandResult
CommandResult(spec, returncode, timed_out) ==
    [label |-> spec.label, returncode |-> returncode,
     allow_failure |-> spec.allow_failure, timed_out |-> timed_out]

\* the return codes of a process that exits by itself
ExitCodes == {0, 2}

\* the return code of a process that could not be spawned
SpawnFailed == 127

\* the return code of a process killed after its timeout
Killed == -9

\* variant: allow_failure does not count
passedStrict(result) == ~result.timed_out /\ result.returncode = 0

\* CommandResult.passed
passed(result) ==
    IF result.timed_out THEN result.allow_failure
    ELSE IF result.returncode = 0 THEN TRUE
    ELSE result.allow_failure

\* variant: the loop has no break
BreaksNever(result, spec) == FALSE

\* if not result.passed and self._stop_on_failure and not spec.allow_failure: break
BreaksLoop(result, spec) ==
    ~passed(result) /\ stop_on_failure /\ ~spec.allow_failure

\* a run that is not in GeminiStreamClient.stream, the accumulator, the
\* transport or the settings
RunnerInit ==
    /\ Init
    /\ factory = "scripted"
    /\ config.heartbeat_interval = 0
    /\ config.max_retries = 0
    /\ caller = "consuming"

\* CommandRunner(stop_on_failure=..., default_timeout=...).run(commands):
\* results = []
RunCall ==
    /\ run_pc = "new"
    /\ \E list \in CommandLists :
         commands' = [i \in DOMAIN list |-> CommandSpec(i, list[i][1], list[i][2])]
    /\ stop_on_failure' \in BOOLEAN
    /\ default_timeout' \in {None, Some(5)}
    /\ results' = <<>>
    /\ position' = 1
    /\ run_pc' = "loop"
    /\ UNCHANGED <<exit_status, spawned, not_runner>>

\* results.append(result), then the break test and the next turn of the loop
Append_result(result, spec) ==
    /\ results' = Append(results, result)
    /\ IF BreaksLoop(result, spec)
       THEN run_pc' = "returned" /\ UNCHANGED position
       ELSE run_pc' = "loop" /\ position' = position + 1

\* for spec in commands: _execute(spec) spawns the process, or returns a
\* result with code 127 on FileNotFoundError, or raises another OSError
RunSpawn ==
    /\ run_pc = "loop"
    /\ position <= Len(commands)
    /\ LET spec == commands[position] IN
       \/ /\ run_pc' = "executing"
          /\ spawned' = Append(spawned, position)
          /\ UNCHANGED <<results, position>>
       \/ /\ Append_result(CommandResult(spec, SpawnFailed, FALSE), spec)
          /\ UNCHANGED spawned
       \/ /\ run_pc' = "raised"
          /\ UNCHANGED <<results, position, spawned>>
    /\ UNCHANGED <<commands, stop_on_failure, default_timeout, exit_status,
                   not_runner>>

\* timeout = spec.timeout if spec.timeout is not None else self._default_timeout
EffectiveTimeout(spec) == IF spec.timeout /= None THEN spec.timeout ELSE default_timeout

\* _execute: communicate() ends with the process, or wait_for times out:
\* process.kill() and a second communicate(), after which returncode is that
\* of the kill, or the exit code of a process that had exited already while
\* a child of it kept the pipes open. Then stdout_bytes.decode() and
\* stderr_bytes.decode(): output that is not UTF-8 raises UnicodeDecodeError
\* out of _execute and run, with no result for the command
RunCollect ==
    /\ run_pc = "executing"
    /\ LET spec == commands[position] IN
       \/ \E code \in ExitCodes :
            Append_result(CommandResult(spec, code, FALSE), spec)
       \/ /\ EffectiveTimeout(spec) /= None
          /\ \E code \in ExitCodes \cup {Killed} :
               Append_result(CommandResult(spec, code, TRUE), spec)
       \/ /\ run_pc' = "raised"
          /\ UNCHANGED <<results, position>>
    /\ UNCHANGED <<commands, stop_on_failure, default_timeout, exit_status,
                   spawned, not_runner>>

\* the loop is over: return results
RunReturn ==
    /\ run_pc = "loop"
    /\ position > Len(commands)
    /\ run_pc' = "returned"
    /\ UNCHANGED <<commands, stop_on_failure, default_timeout, results, position,
                   exit_status, spawned, not_runner>>

\* sys.exit(n) with an int: the exit status of the process is n modulo 256
ProcessStatus(n) == n % 256

\* CommandResult.exit_code
exit_code(result) == IF result.returncode /= 0 THEN result.returncode ELSE 0

\* exit_code = 0 if all(result.passed for result in results)
\*             else results[-1].exit_code
ExitCode(rs) ==
    IF \A i \in 1..Len(rs) : passed(rs[i]) THEN 0
    ELSE exit_code(rs[Len(rs)])

\* _run_commands after runner.run_sync(commands) has returned the results of
\* a non-empty command list: print(format_summary(results)), then
\* sys.exit(exit_code). The print writes the summary to standard output and
\* raises when the write fails at once (a closed pipe or a full device with
\* an unbuffered stream, a text the encoding of standard output cannot
\* encode): nothing catches the exception and the process exits with status
\* 1, whatever the results are. When the print has gone into the buffer of
\* the stream, or the runner has logged to standard error, and the flush of
\* the standard streams at the exit of the interpreter fails, the process
\* exits with status 120, whatever exit_code is
MainExit ==
    /\ run_pc = "returned"
    /\ commands /= <<>>
    /\ exit_status = None
    /\ \E printed \in BOOLEAN, flushed \in BOOLEAN :
         exit_status' = IF ~flushed THEN Some(120)
                        ELSE IF printed
                        THEN Some(ProcessStatus(ExitCode(results)))
                        ELSE Some(1)
    /\ UNCHANGED <<commands, stop_on_failure, default_timeout, results, position,
                   run_pc, spawned, not_runner>>

\* _run_commands with no command: raise SystemExit(message), which writes
\* the message to standard error and exits with status 1, or with status
\* 120 when the flush of standard error at the exit of the interpreter
\* fails; no runner is built
MainNoCommands ==
    /\ run_pc = "new"
    /\ run_pc' = "refused"
    /\ \E flushed \in BOOLEAN :
         exit_status' = IF flushed THEN Some(1) ELSE Some(120)
    /\ UNCHANGED <<commands, stop_on_failure, default_timeout, results, position,
                   spawned, not_runner>>

\* _run_commands when runner.run_sync(commands) raises: nothing catches the
\* exception, the interpreter writes the traceback to standard error and
\* exits with status 1, or with status 120 when the flush of standard error
\* at the exit of the interpreter fails
MainRaises ==
    /\ run_pc = "raised"
    /\ exit_status = None
    /\ \E flushed \in BOOLEAN :
         exit_status' = IF flushed THEN Some(1) ELSE Some(120)
    /\ UNCHANGED <<commands, stop_on_failure, default_timeout, results, position,
                   run_pc, spawned, not_runner>>

RunnerNext ==
    \/ RunCall
    \/ RunSpawn
    \/ RunCollect
    \/ RunReturn
    \/ MainExit
    \/ MainRaises
    \/ MainNoCommands

RunnerSpec == RunnerInit /\ [][RunnerNext]_vars

(* ---------------------------------------------------------------------- *)
(* landing_api.py: LandingDataStore and the routes of create_app           *)

\* the decimal digits
Digits == <<"0", "1", "2", "3", "4", "5", "6", "7", "8", "9">>

\* str(n) for an int n >= 0, as a tuple of characters
RECURSIVE Str(_)
Str(n) == IF n < 10 THEN <<Digits[n + 1]>> ELSE Str(n \div 10) \o <<Digits[(n % 10) + 1]>>

\* decimal digits of another script, which int() reads as well: the
\* Arabic-Indic digits, written by their code points
ArabicIndic == <<"U+0660", "U+0661", "U+0662", "U+0663", "U+0664", "U+0665",
                 "U+0666", "U+0667", "U+0668", "U+0669">>

\* the value of a digit character
DigitValue(c) == (CHOOSE d \in 1..10 : Digits[d] = c \/ ArabicIndic[d] = c) - 1

IsDigit(c) == \E d \in 1..10 : Digits[d] = c \/ ArabicIndic[d] = c

\* the value of a tuple of digits
RECURSIVE DigitsValue(_)
DigitsValue(ds) ==
    IF ds = <<>> THEN 0
    ELSE 10 * DigitsValue(SubSeq(ds, 1, Len(ds) - 1)) + DigitValue(ds[Len(ds)])

\* the digits separated by single underscores that int() accepts: a digit
\* at either end, digits and underscores between, no two underscores in a row
Grouped(body) ==
    /\ body /= <<>>
    /\ IsDigit(body[1]) /\ IsDigit(body[Len(body)])
    /\ \A i \in 1..Len(body) : IsDigit(body[i]) \/ body[i] = "_"
    /\ \A i \in 1..(Len(body) - 1) : body[i] /= "_" \/ body[i + 1] /= "_"

\* int(s): surrounding whitespace is dropped, the separators U+001C..U+001F
\* excepted, one sign is allowed, and the rest must be digits with single
\* underscores between them; anything else raises ValueError
Int_(chars) ==
    LET s == StripOf(chars, Whitespace \ {"U+001C"})
        signed == s /= <<>> /\ s[1] \in {"+", "-"}
        body == IF signed THEN Tail(s) ELSE s
        ds == SelectSeq(body, IsDigit)
    IN IF Grouped(body)
       THEN [raised |-> NoError,
             value |-> IF signed /\ s[1] = "-" THEN 0 - DigitsValue(ds) ELSE DigitsValue(ds)]
       ELSE [raised |-> "ValueError", value |-> 0]

\* the workspace of test_landing_api._build_store, with a second branch
Workspaces == <<[id |-> "monorepo", branches |-> {"main", "experimental"}]>>

\* TaskCollection
TaskCollections == {"active", "archived"}

\* the tasks of a store: n active tasks and one archived task on main
StoreTasks(n) ==
    (<<"monorepo", "main", "active">> :> [i \in 1..n |-> i])
    @@ (<<"monorepo", "main", "archived">> :> <<100>>)

\* self._workspace_index.get(workspace_id): the workspaces with that id
WorkspaceIndexGet(st, workspace_id) ==
    {st.workspaces[i] : i \in {j \in 1..Len(st.workspaces) : st.workspaces[j].id = workspace_id}}

\* self._tasks.get(key, [])
TasksGet(st, key) == IF key \in DOMAIN st.tasks THEN st.tasks[key] ELSE <<>>

\* the result of a store call: what it returned, or the exception it raised
Failed(name) == [raised |-> name, page |-> <<>>, next_cursor |-> None, job_id |-> <<>>]

\* variant: next_cursor also on the page that reaches the end
NextCursorAlways(end_index, tasks) == Some(Str(end_index))

\* next_cursor = str(end_index) if end_index < len(collection_tasks) else None
NextCursor(end_index, tasks) ==
    IF end_index < Len(tasks) THEN Some(Str(end_index)) ELSE None

\* LandingDataStore.list_tasks
list_tasks(st, workspace_id, branch_id, collection, cursor, page_size) ==
    LET found == WorkspaceIndexGet(st, workspace_id) IN
    IF found = {} THEN Failed("KeyError")
    ELSE IF branch_id \notin (CHOOSE w \in found : TRUE).branches THEN Failed("KeyError")
    ELSE LET collection_tasks == TasksGet(st, <<workspace_id, branch_id, collection>>)
             given == cursor /= None /\ cursor[1] /= <<>>
             parsed == IF given THEN Int_(cursor[1]) ELSE [raised |-> NoError, value |-> 0]
         IN IF parsed.raised /= NoError \/ parsed.value < 0 THEN Failed("ValueError")
            ELSE LET start_index == parsed.value
                     end_index == start_index + page_size
                 IN [raised |-> NoError,
                     page |-> SubSeq(collection_tasks, start_index + 1,
                                     Min(end_index, Len(collection_tasks))),
                     next_cursor |-> NextCursor(end_index, collection_tasks),
                     job_id |-> <<>>]

\* "job_" and the hex digits of the uuid
JobId(hex) == <<"j", "o", "b", "_">> \o hex

\* variant: a prompt is accepted untrimmed
PromptUntrimmed(prompt) == prompt

\* PromptSubmission.normalised_prompt
normalised_prompt(prompt) == strip(prompt)

\* LandingDataStore.create_prompt
create_prompt(st, workspace_id, branch_id, prompt, hex) ==
    LET found == WorkspaceIndexGet(st, workspace_id) IN
    IF found = {} THEN Failed("KeyError")
    ELSE IF branch_id \notin (CHOOSE w \in found : TRUE).branches THEN Failed("KeyError")
    ELSE IF normalised_prompt(prompt) = <<>> THEN Failed("ValueError")
    ELSE [raised |-> NoError, page |-> <<>>, next_cursor |-> None, job_id |-> JobId(hex)]

\* the page_size of list_tasks when the route calls it
DefaultPageSize == 25

\* the status of the response of a route: 404 for KeyError, 400 for
\* ValueError, else the status of the route
StatusCode(result, ok) ==
    CASE result.raised = "KeyError" -> 404
      [] result.raised = "ValueError" -> 400
      [] OTHER -> ok

\* the cursor query parameters: none, "", "x", "-1", "-0", "+1", " 1",
\* "1.5", "0_1", "1__0", "1_", "\t1\n", "+ 1", a file separator before 1,
\* the Arabic-Indic digit one, "0", "1" and the number of active tasks at most
Cursors ==
    {None, Some(<<>>), Some(<<"x">>), Some(<<"-", "1">>), Some(<<"-", "0">>),
     Some(<<"+", "1">>), Some(<<" ", "1">>), Some(<<"1", ".", "5">>),
     Some(<<"0", "_", "1">>), Some(<<"1", "_", "_", "0">>), Some(<<"1", "_">>),
     Some(<<"\t", "1", "\n">>), Some(<<"+", " ", "1">>),
     Some(<<"U+001C", "1">>), Some(<<"U+0661">>),
     Some(Str(0)), Some(Str(1)), Some(Str(MaxTasks))}

\* the prompts: "", "   ", "\t\n", a no-break space, " do " and "text"
Prompts ==
    {<<>>, <<" ", " ", " ">>, <<"\t", "\n">>, <<"U+00A0">>,
     <<" ", "d", "o", " ">>, <<"t", "e", "x", "t">>}

WorkspaceIds == {"monorepo", "missing"}
BranchIds == {"main", "experimental", "missing"}

\* a run that is in the landing API alone
LandingInit ==
    /\ Init
    /\ factory = "scripted"
    /\ config.heartbeat_interval = 0
    /\ config.max_retries = 0
    /\ caller = "consuming"

\* LandingDataStore(workspaces=..., tasks=...), used by a client that reads
\* one collection page by page with list_tasks, or behind the routes of
\* create_app(store)
LandingCreate ==
    /\ landing_pc = "new"
    /\ \E n \in 0..MaxTasks :
         /\ store' = [workspaces |-> Workspaces, tasks |-> StoreTasks(n)]
         /\ store_created' = [workspaces |-> Workspaces, tasks |-> StoreTasks(n)]
    /\ \/ /\ landing_pc' = "paging"
          /\ \E branch \in {"main", "experimental"}, collection \in TaskCollections,
                size \in 1..MaxPageSize :
               walk' = [branch |-> branch, collection |-> collection,
                        page_size |-> size, cursor |-> None, pages |-> <<>>,
                        done |-> FALSE]
       \/ /\ landing_pc' = "serving"
          /\ UNCHANGED walk
    /\ UNCHANGED <<request, response, not_landing>>

\* store.list_tasks(..., cursor=next_cursor, page_size=...): the next page
ListPage ==
    /\ landing_pc = "paging"
    /\ ~walk.done
    /\ LET result == list_tasks(store, "monorepo", walk.branch, walk.collection,
                                walk.cursor, walk.page_size)
       IN walk' = [walk EXCEPT !.pages = Append(@, result.page),
                               !.cursor = result.next_cursor,
                               !.done = result.next_cursor = None]
    /\ UNCHANGED <<store, store_created, request, response, landing_pc, not_landing>>

\* GET /api/tasks
get_tasks ==
    /\ landing_pc = "serving"
    /\ \E workspace \in WorkspaceIds, branch \in BranchIds,
          collection \in TaskCollections, cursor \in Cursors :
         LET result == list_tasks(store, workspace, branch, collection, cursor,
                                  DefaultPageSize)
         IN /\ request' = [route |-> "tasks", workspace |-> workspace,
                           branch |-> branch, collection |-> collection,
                           cursor |-> cursor, prompt |-> <<>>]
            /\ response' = [status |-> StatusCode(result, 200), tasks |-> result.page,
                            next_cursor |-> result.next_cursor, job_id |-> <<>>]
    /\ UNCHANGED <<store, store_created, walk, landing_pc, not_landing>>

\* POST /api/prompts
submit_prompt ==
    /\ landing_pc = "serving"
    /\ \E workspace \in WorkspaceIds, branch \in BranchIds, prompt \in Prompts,
          hex \in {<<"0", "f">>, <<"a", "1">>} :
         LET result == create_prompt(store, workspace, branch, prompt, hex)
         IN /\ request' = [route |-> "prompts", workspace |-> workspace,
                           branch |-> branch, collection |-> "active",
                           cursor |-> None, prompt |-> prompt]
            /\ response' = [status |-> StatusCode(result, 202), tasks |-> <<>>,
                            next_cursor |-> None, job_id |-> result.job_id]
    /\ UNCHANGED <<store, store_created, walk, landing_pc, not_landing>>

LandingNext ==
    \/ LandingCreate
    \/ ListPage
    \/ get_tasks
    \/ submit_prompt

LandingSpec == LandingInit /\ [][LandingNext]_vars

(* ---------------------------------------------------------------------- *)
(* stream() over GoogleGenerativeAITransport: one transport, one queue and *)
(* one worker thread per attempt                                           *)

\* an event, marked with the attempt whose worker or pump made it (history);
\* the text of an event plays no part in where it goes
Item(kind, i) == [event |-> kind, by |-> i]

\* threading.Thread.is_alive of the worker of attempt i
WorkerAlive(i) == tr[i].worker \notin {"unstarted", "done"}

\* self._queue is None, and the worker's local queue before it is assigned
NoQueue == 0

\* variant: one asyncio.Queue shared by the transports of the call
SharedTransportQueue(i) == 1

\* self._queue = asyncio.Queue() in the __aenter__ of the transport of
\* attempt i: a new queue object, named by the transport that created it.
\* tr[q].channel holds the items of the queue object q.
NewTransportQueue(i) == i

\* _run_coro_threadsafe(queue.put(event), loop) by the worker of attempt i,
\* on the queue its local variable refers to
IsoHand(i, kind) ==
    loop_puts' = Append(loop_puts, [to |-> tr[i].local, item |-> Item(kind, i)])

\* history: 1 when the worker of attempt i hands an event over after a
\* later attempt has started, as it is then for all it hands over later
Late(i) == IF iso_attempt > i THEN 1 ELSE 0

\* an attempt starts: stream() makes a new merge queue, creates the pump
\* task and waits in queue.get(); the pump task has not run yet
IsoStart ==
    /\ iso_pc = "start"
    /\ iso_attempt < MaxWorkers
    /\ iso_attempt' = iso_attempt + 1
    /\ merge' = <<>>
    /\ iso_success' = TRUE
    /\ iso_pump' = "created"
    /\ iso_pc' = "get"
    /\ UNCHANGED <<tr, loop_puts, visible, not_isolation>>

\* the first step of the pump task: the factory builds the transport of the
\* attempt, __aenter__ sets the fields and starts the worker thread, and
\* iter_messages waits for the first item
IsoPumpStart ==
    /\ iso_pump = "created"
    /\ tr' = [tr EXCEPT ![iso_attempt].queue = NewTransportQueue(iso_attempt),
                        ![iso_attempt].worker = "start"]
    /\ iso_pump' = "iterating"
    /\ UNCHANGED <<loop_puts, merge, visible, iso_pc, iso_attempt, iso_success,
                   not_isolation>>

\* the pump: iter_messages gets the next item of the queue self._queue
\* refers to and the pump puts it on the merge queue as it is; on __end__
\* the iteration ends and __aexit__ joins the worker if it is alive, else
\* clears the fields, after which the pump's finally clause puts __end__
IsoPump ==
    /\ iso_pump = "iterating"
    /\ tr[iso_attempt].queue /= NoQueue
    /\ tr[tr[iso_attempt].queue].channel /= <<>>
    /\ LET q == tr[iso_attempt].queue
           item == Head(tr[q].channel)
       IN
       IF item.event /= "__end__"
       THEN /\ tr' = [tr EXCEPT ![q].channel = Tail(@)]
            /\ merge' = Append(merge, item)
            /\ UNCHANGED iso_pump
       ELSE IF WorkerAlive(iso_attempt)
       THEN /\ tr' = [tr EXCEPT ![q].channel = Tail(@),
                               ![iso_attempt].ended_by = item.by]
            /\ iso_pump' = "joining"
            /\ UNCHANGED merge
       ELSE /\ tr' = [tr EXCEPT ![q].channel = Tail(@),
                               ![iso_attempt].ended_by = item.by,
                               ![iso_attempt].queue = NoQueue]
            /\ iso_pump' = "done"
            /\ merge' = Append(merge, Item("__end__", iso_attempt))
    /\ UNCHANGED <<loop_puts, visible, iso_pc, iso_attempt, iso_success,
                   not_isolation>>

\* the cancelled pump, waiting in iter_messages: CancelledError leaves the
\* async with statement through __aexit__
IsoPumpCancelled ==
    /\ iso_pump = "cancelled"
    /\ IF WorkerAlive(iso_attempt)
       THEN /\ iso_pump' = "joining"
            /\ UNCHANGED <<tr, merge>>
       ELSE /\ tr' = [tr EXCEPT ![iso_attempt].queue = NoQueue]
            /\ iso_pump' = "done"
            /\ merge' = Append(merge, Item("__end__", iso_attempt))
    /\ UNCHANGED <<loop_puts, visible, iso_pc, iso_attempt, iso_success,
                   not_isolation>>

\* self._thread.join(timeout=0.1) returns, the worker finished or not; the
\* fields are cleared and the pump's finally clause puts __end__
IsoJoinReturns ==
    /\ iso_pump = "joining"
    /\ \E timed_out \in BOOLEAN :
         tr[iso_attempt].worker = "done" \/ timed_out
    /\ tr' = [tr EXCEPT ![iso_attempt].queue = NoQueue,
                        ![iso_attempt].abandoned = WorkerAlive(iso_attempt)]
    /\ iso_pump' = "done"
    /\ merge' = Append(merge, Item("__end__", iso_attempt))
    /\ UNCHANGED <<loop_puts, visible, iso_pc, iso_attempt, iso_success,
                   not_isolation>>

\* stream(): event = await queue.get(); break on __end__ and on error,
\* which clears success, entering finally with pump_task.cancel(); else
\* yield, and the caller asks for the next event
IsoGet ==
    /\ iso_pc = "get"
    /\ iso_pump /= "joining"
    /\ merge /= <<>>
    /\ merge' = Tail(merge)
    /\ LET item == Head(merge) IN
       IF item.event \in {"__end__", "error"}
       THEN /\ iso_pc' = "cleanup"
            /\ iso_success' = (iso_success /\ item.event /= "error")
            /\ iso_pump' = IF iso_pump = "iterating" THEN "cancelled"
                           ELSE iso_pump
            /\ UNCHANGED visible
       ELSE /\ visible' = Append(visible, [attempt |-> iso_attempt,
                                           item |-> item])
            /\ UNCHANGED <<iso_pc, iso_success, iso_pump>>
    /\ UNCHANGED <<tr, loop_puts, iso_attempt, not_isolation>>

\* the finally block once the pump task has finished, then return, raise or
\* the backoff sleep and the next iteration of the while loop
IsoCleanup ==
    /\ iso_pc = "cleanup"
    /\ iso_pump = "done"
    /\ iso_pc' = IF iso_success THEN "returned"
                 ELSE IF BudgetExhausted(iso_attempt - 1) THEN "raised"
                 ELSE "start"
    /\ UNCHANGED <<tr, loop_puts, merge, visible, iso_attempt, iso_success,
                   iso_pump, not_isolation>>

\* _run_stream of the worker of attempt i: queue = self._queue; loop =
\* self._loop; return if one is None
IsoWorkerStart(i) ==
    /\ tr[i].worker = "start"
    /\ tr' = [tr EXCEPT ![i].local = tr[i].queue,
                        ![i].worker = IF tr[i].queue /= NoQueue THEN "setup"
                                      ELSE "finally"]
    /\ UNCHANGED <<loop_puts, merge, visible, iso_pc, iso_attempt, iso_success,
                   iso_pump, not_isolation>>

\* _import_genai, configure, GenerativeModel, generate_content: the backend
\* call is set up or raises, whatever __aexit__ did to the fields meanwhile
IsoWorkerSetup(i) ==
    /\ tr[i].worker = "setup"
    /\ \/ tr' = [tr EXCEPT ![i].worker = "iterating"]
       \/ tr' = [tr EXCEPT ![i].worker = "except"]
    /\ UNCHANGED <<loop_puts, merge, visible, iso_pc, iso_attempt, iso_success,
                   iso_pump, not_isolation>>

\* number of chunks the backend has yielded to the workers 1..n of the call
RECURSIVE IsoChunks(_)
IsoChunks(n) == IF n = 0 THEN 0 ELSE tr[n].chunks + IsoChunks(n - 1)

\* for chunk in stream: a chunk is handed over through the captured queue
IsoWorkerChunk(i) ==
    /\ tr[i].worker = "iterating"
    /\ IsoChunks(MaxWorkers) < MaxChunks
    /\ IsoHand(i, "chunk")
    /\ tr' = [tr EXCEPT ![i].chunks = @ + 1, ![i].late = Late(i)]
    /\ UNCHANGED <<merge, visible, iso_pc, iso_attempt, iso_success, iso_pump,
                   not_isolation>>

\* the backend iteration ends: complete is handed over
IsoWorkerComplete(i) ==
    /\ tr[i].worker = "iterating"
    /\ IsoHand(i, "complete")
    /\ tr' = [tr EXCEPT ![i].worker = "finally", ![i].late = Late(i)]
    /\ UNCHANGED <<merge, visible, iso_pc, iso_attempt, iso_success, iso_pump,
                   not_isolation>>

\* the backend iteration raises
IsoWorkerRaise(i) ==
    /\ tr[i].worker = "iterating"
    /\ tr' = [tr EXCEPT ![i].worker = "except"]
    /\ UNCHANGED <<loop_puts, merge, visible, iso_pc, iso_attempt, iso_success,
                   iso_pump, not_isolation>>

\* except Exception: queue = self._queue; loop = self._loop, read by the
\* thread while __aexit__ may clear them on the event loop
IsoWorkerExceptRead(i) ==
    /\ tr[i].worker = "except"
    /\ tr' = [tr EXCEPT ![i].local = tr[i].queue,
                        ![i].worker = IF tr[i].queue /= NoQueue THEN "except_put"
                                      ELSE "finally"]
    /\ UNCHANGED <<loop_puts, merge, visible, iso_pc, iso_attempt, iso_success,
                   iso_pump, not_isolation>>

\* error is handed over through the queue and loop read before
IsoWorkerExceptPut(i) ==
    /\ tr[i].worker = "except_put"
    /\ IsoHand(i, "error")
    /\ tr' = [tr EXCEPT ![i].worker = "finally", ![i].late = Late(i)]
    /\ UNCHANGED <<merge, visible, iso_pc, iso_attempt, iso_success, iso_pump,
                   not_isolation>>

\* finally: queue = self._queue; loop = self._loop, read again
IsoWorkerFinallyRead(i) ==
    /\ tr[i].worker = "finally"
    /\ tr' = [tr EXCEPT ![i].local = tr[i].queue,
                        ![i].worker = IF tr[i].queue /= NoQueue THEN "finally_put"
                                      ELSE "returning"]
    /\ UNCHANGED <<loop_puts, merge, visible, iso_pc, iso_attempt, iso_success,
                   iso_pump, not_isolation>>

\* __end__ is handed over through the queue and loop read before
IsoWorkerFinallyPut(i) ==
    /\ tr[i].worker = "finally_put"
    /\ IsoHand(i, "__end__")
    /\ tr' = [tr EXCEPT ![i].worker = "returning", ![i].late = Late(i)]
    /\ UNCHANGED <<merge, visible, iso_pc, iso_attempt, iso_success, iso_pump,
                   not_isolation>>

\* _run_stream returns and the thread ends
IsoWorkerReturn(i) ==
    /\ tr[i].worker = "returning"
    /\ tr' = [tr EXCEPT ![i].worker = "done"]
    /\ UNCHANGED <<loop_puts, merge, visible, iso_pc, iso_attempt, iso_success,
                   iso_pump, not_isolation>>

\* the event loop, not blocked in join, runs the oldest scheduled put, on
\* the queue object the worker handed it with
IsoLoopRunsPut ==
    /\ loop_puts /= <<>>
    /\ iso_pump /= "joining"
    /\ tr' = [tr EXCEPT ![NextPut(loop_puts)[1].to].channel =
                            Append(@, NextPut(loop_puts)[1].item)]
    /\ loop_puts' = NextPut(loop_puts)[2]
    /\ UNCHANGED <<merge, visible, iso_pc, iso_attempt, iso_success, iso_pump,
                   not_isolation>>

\* the calls without heartbeats whose retry budget the workers of the model
\* cover
IsolationInit ==
    /\ Init
    /\ factory = "scripted"
    /\ config.heartbeat_interval = 0
    /\ config.max_retries < MaxWorkers
    /\ caller = "consuming"

IsolationNext ==
    \/ IsoStart
    \/ IsoPumpStart
    \/ IsoPump
    \/ IsoPumpCancelled
    \/ IsoJoinReturns
    \/ IsoGet
    \/ IsoCleanup
    \/ IsoLoopRunsPut
    \/ \E i \in 1..MaxWorkers :
         \/ IsoWorkerStart(i)
         \/ IsoWorkerSetup(i)
         \/ IsoWorkerChunk(i)
         \/ IsoWorkerComplete(i)
         \/ IsoWorkerRaise(i)
         \/ IsoWorkerExceptRead(i)
         \/ IsoWorkerExceptPut(i)
         \/ IsoWorkerFinallyRead(i)
         \/ IsoWorkerFinallyPut(i)
         \/ IsoWorkerReturn(i)

IsolationSpec == IsolationInit /\ [][IsolationNext]_vars

(* ---------------------------------------------------------------------- *)
(* Properties                                                              *)

Terminal == pc \in {"returned", "raised"}

\* the caller keeps consuming: it has neither closed the stream nor been
\* cancelled
Consuming == unwound = "no"

\* stream() has not left the inner loop of the attempt by a break
Reading == pc \in {"get", "yielded"} \/ unwound \in {"close", "get"}

RECURSIVE OfKinds(_, _)
\* the subsequence of the events whose kind is in kinds
OfKinds(events, kinds) ==
    IF events = <<>> THEN <<>>
    ELSE IF Head(events).event \in kinds
         THEN <<Head(events)>> \o OfKinds(Tail(events), kinds)
         ELSE OfKinds(Tail(events), kinds)

\* the events without the heartbeats
NoHeartbeats(events) == OfKinds(events, {"chunk", "complete", "error", "__end__"})

IsPrefix(a, b) == Len(a) <= Len(b) /\ a = SubSeq(b, 1, Len(a))

HasKind(events, kind) == \E i \in 1..Len(events) : events[i].event = kind

RECURSIVE Texts(_)
\* the texts of the events, in order
Texts(events) ==
    IF events = <<>> THEN <<>> ELSE <<Head(events).text>> \o Texts(Tail(events))

\* chunks c1..cn followed by complete
ChunksThenComplete(events) ==
    /\ events /= <<>>
    /\ events[Len(events)] = Complete
    /\ \A i \in 1..(Len(events) - 1) : events[i].event = "chunk"

\* C1: StreamError is raised exactly when max_retries + 1 attempts have each
\* failed: when it is raised, max_retries + 1 attempts were started and every
\* one failed; a call that returns did not fail in its last attempt; every
\* attempt before the one in progress failed; with a transport whose enter
\* always fails no chunk is forwarded.
RetryExhaustion ==
    /\ pc = "raised" => started = config.max_retries + 1 /\ failures = started
    /\ pc = "returned" => ~failed /\ failures = started - 1
    /\ started >= 1 => failures >= started - 1
    /\ factory = "failing" => ~HasKind(delivered, "chunk")

RetryExhaustionWitness ==
    /\ pc = "raised"
    /\ factory = "failing"
    /\ config.max_retries = 2
    /\ started = 3

\* C2: the attempt index never exceeds max_retries and at most
\* max_retries + 1 attempts are started.
RetriesBounded ==
    /\ attempt <= config.max_retries
    /\ started <= config.max_retries + 1

RetriesBoundedWitness ==
    /\ factory = "scripted"
    /\ config.max_retries = 2
    /\ attempt = 2
    /\ pc = "cleanup"
    /\ ~success

\* C3: in the fail-over scenario the call ends by returning, with the
\* caller-visible sequence [chunk("secondary"), complete].
FailoverScenario ==
    ( /\ factory = "endpoint_aware"
      /\ config.endpoint = "primary"
      /\ fallback_endpoints = <<"secondary">>
      /\ config.max_retries = 2
      /\ config.heartbeat_interval = 0
      /\ pc \in {"returned", "raised", "type_error"} )
    => /\ pc = "returned"
       /\ delivered = <<Chunk("secondary"), Complete>>

\* C4: for every endpoint list [primary] + fallbacks the call runs, and the
\* configuration handed to the factory for attempt i has
\* endpoint = endpoints[min(i, n-1)].
EndpointSelectionLaw ==
    /\ pc /= "type_error"
    /\ \A k \in 1..Len(factory_endpoints) :
         factory_endpoints[k] = Endpoints[Min(k - 1, Len(Endpoints) - 1) + 1]

\* C5: the delay slept after the failure of attempt i (0-based) is
\* min(backoff_base * 2^i, backoff_max); one delay per retry; the first is
\* min(backoff_base, backoff_max); the delays never decrease and never
\* exceed backoff_max.
BackoffLaw ==
    /\ Len(sleeps) = attempt
    /\ \A k \in 1..Len(sleeps) :
         /\ sleeps[k] = Min(config.backoff_base * Pow2(k - 1), config.backoff_max)
         /\ sleeps[k] <= config.backoff_max
         /\ k > 1 => sleeps[k - 1] <= sleeps[k]
    /\ sleeps /= <<>> => sleeps[1] = Min(config.backoff_base, config.backoff_max)

BackoffLawWitness ==
    /\ pc = "sleep"
    /\ config.backoff_base = 2
    /\ config.backoff_max = 3
    /\ sleeps = <<2, 3>>

\* C6: with heartbeats disabled, a first attempt whose transport enters,
\* yields chunks c1..cn then complete and ends without failing is the only
\* attempt: the call neither sleeps nor raises, it yields a prefix of
\* [chunk(c1), ..., chunk(cn), complete] and, once it has returned, exactly
\* that sequence; an accumulator fed the yielded events then holds c1+...+cn.
NoFailureRun ==
    ( /\ config.heartbeat_interval = 0
      /\ Consuming
      /\ started = 1
      /\ pump_task = "done"
      /\ ~failed
      /\ ChunksThenComplete(emitted) )
    => /\ pc \in {"get", "yielded", "cleanup", "returned"}
       /\ IsPrefix(delivered, emitted)
       /\ pc \in {"cleanup", "returned"} =>
            /\ delivered = emitted
            /\ success
            /\ text(PushAll(<<>>, delivered)) = Join(Texts(OfKinds(emitted, {"chunk"})))

NoFailureRunWitness ==
    /\ pc = "returned"
    /\ config.heartbeat_interval = 0
    /\ started = 1
    /\ delivered = <<Chunk("A"), Chunk("B"), Complete>>
    /\ text(PushAll(<<>>, delivered)) = "AB"

\* C7: leaving the heartbeats aside, the caller-visible sequence is always a
\* prefix of what the transports yielded before failing, attempt after
\* attempt, and is all of it whenever no attempt is in progress: the chunks
\* of a failed attempt stay, none is delivered twice and all of them precede
\* the events of the next attempt.
PartialChunksKept ==
    /\ IsPrefix(NoHeartbeats(delivered), produced)
    /\ pc \in {"cleanup", "sleep", "start", "returned", "raised"} =>
         NoHeartbeats(delivered) = produced
    /\ base <= Len(delivered)

PartialChunksKeptWitness ==
    /\ pc = "returned"
    /\ started = 2
    /\ Len(sleeps) = 1
    /\ delivered = <<Chunk("A"), Chunk("B"), Complete>>
    /\ base = 1

\* C8: every event forwarded to the caller is a chunk, a heartbeat or a
\* complete.
OnlyCallerKinds ==
    \A i \in 1..Len(delivered) : delivered[i].event \in {"chunk", "heartbeat", "complete"}

OnlyCallerKindsWitness ==
    /\ pc = "raised"
    /\ last_error = "Unknown Gemini error"
    /\ HasKind(delivered, "heartbeat")
    /\ HasKind(delivered, "chunk")

\* a transport that yields nothing after its complete or error event
Conforming(events) ==
    \A i \in 1..(Len(events) - 1) : events[i].event \notin {"complete", "error"}

\* C9: a complete event is the last caller-visible event: nothing is
\* forwarded after it. Stated for the first attempt of a call and a
\* transport that yields nothing after its complete, so that only the
\* heartbeat task can add an event behind it.
CompleteIsLast ==
    (started = 1 /\ Conforming(emitted)) =>
        \A i \in 1..Len(delivered) :
            delivered[i].event = "complete" => i = Len(delivered)

\* C10: once complete has been forwarded the call ends normally: it does not
\* sleep for a backoff, start another attempt or raise StreamError.
CompleteEndsCall ==
    \A i \in 1..Len(delivered) :
        delivered[i].event = "complete" =>
            /\ pc \in {"yielded", "get", "cleanup", "returned"}
            /\ i > base

\* C11: with heartbeat_interval 0 no attempt has a heartbeat task and no
\* heartbeat event is forwarded; with a positive interval every attempt
\* started has created exactly one heartbeat task
HeartbeatGate ==
    /\ config.heartbeat_interval = 0 =>
          /\ heartbeat_task = "none"
          /\ hb_tasks = 0
          /\ beats = 0
          /\ ~HasKind(delivered, "heartbeat")
    /\ config.heartbeat_interval > 0 =>
          /\ hb_tasks = started
          /\ started > 0 => heartbeat_task /= "none"

HeartbeatGateWitness ==
    /\ config.heartbeat_interval = 0
    /\ started = 2
    /\ pc = "yielded"
    /\ delivered /= <<>>

\* the events forwarded to the caller in the attempt in progress
Forwarded == SubSeq(delivered, base + 1, Len(delivered))

\* the number of items stream() has taken from the attempt's queue
Taken == Len(enqueued) - Len(queue)

\* C12: within one attempt the forwarded events are exactly the items taken
\* from the queue, in the order pump and heartbeat task enqueued them, with
\* no duplicate; the queue holds the rest in the same order; the attempt
\* stops at the first error or __end__ item and every item enqueued before
\* it has been forwarded; the forwarded transport events are a prefix of
\* the transport's emission order
OrderPreserved ==
    started > 0 =>
      /\ Taken >= 0
      /\ queue = SubSeq(enqueued, Taken + 1, Len(enqueued))
      /\ \A i \in 1..Len(Forwarded) : ~Breaks(Forwarded[i])
      /\ IF Reading
         THEN Forwarded = SubSeq(enqueued, 1, Taken)
         ELSE /\ Taken >= 1
              /\ Breaks(enqueued[Taken])
              /\ Forwarded = SubSeq(enqueued, 1, Taken - 1)
      /\ IsPrefix(NoHeartbeats(Forwarded), emitted)

OrderPreservedWitness ==
    /\ pc = "cleanup"
    /\ started = 2
    /\ Len(Forwarded) = 3
    /\ Forwarded[2] = Heartbeat
    /\ Len(queue) >= 1

\* the tasks of the given kind that have not finished
Alive(kind) == {t \in alive : t[1] = kind}

\* stream() is at a place behind the finally block of an attempt: in the
\* backoff sleep, about to start the next attempt, or returned or raised
BetweenAttempts == pc \in {"sleep", "start", "returned", "raised"}

\* C13: attempts are strictly sequential: every pump or heartbeat task that
\* has not finished belongs to the attempt in progress, so at most one pump
\* task is alive; when stream() sleeps for backoff, is about to create the
\* queue and the pump of the next attempt, or has returned or raised, the
\* pump task and the heartbeat task of the attempt before have both
\* finished; so the events yielded since an attempt started are items its
\* own tasks put on its own queue, and they come behind the events of the
\* earlier attempts, which no later step changes
AttemptsSequential ==
    /\ [](/\ \A t \in alive : t[2] = started
          /\ Cardinality(Alive("pump")) <= 1
          /\ BetweenAttempts =>
                /\ alive = {}
                /\ started > 0 => pump_task = "done"
                /\ heartbeat_task \in {"none", "cancelled"}
          /\ started > 0 => IsPrefix(Forwarded, enqueued))
    /\ [][(/\ IsPrefix(delivered, delivered')
           /\ base <= base'
           /\ base' <= Len(delivered'))]_vars

\* the second attempt of a call with heartbeats has yielded an event behind
\* an event of the first, whose pump and heartbeat task were awaited at
\* their awaits; the tasks alive are the two of the second attempt
AttemptsSequentialWitness ==
    /\ started = 2
    /\ pc = "yielded"
    /\ alive = {Task("pump", 2), Task("heartbeat", 2)}
    /\ base >= 1
    /\ Len(Forwarded) >= 1
    /\ sleeps /= <<>>

\* the items the pump task of the attempt has put on the queue
PumpItems == NoHeartbeats(enqueued)

\* C14: an attempt whose transport fails before producing any event (the
\* factory or enter raises) and an attempt whose transport yields error as
\* its first event are handled alike: in both the pump's first item is an
\* error event with the failure's message, no transport event is forwarded,
\* and once stream() has taken that item the attempt has failed with that
\* message, the retry decision compares attempt with max_retries, the delay
\* is the backoff of the next attempt, and a final StreamError has that
\* message as its cause
EnterFailureLikeError ==
    (started > 0 /\ failed /\ (emitted = <<>> \/ emitted[1].event = "error")) =>
      /\ PumpItems /= <<>>
      /\ PumpItems[1].event = "error"
      /\ emitted /= <<>> => PumpItems[1] = emitted[1]
      /\ NoHeartbeats(Forwarded) = <<>>
      /\ ~Reading =>
            /\ ~success
            /\ last_error = ErrorMessage(PumpItems[1])
            /\ pc \in {"cleanup", "sleep", "start", "raised", "cancelled"}
            /\ pc = "raised" =>
                  attempt = config.max_retries /\ started = attempt + 1
            /\ pc \in {"sleep", "start"} =>
                  /\ attempt = started
                  /\ attempt <= config.max_retries
                  /\ sleeps[attempt] = Delay(attempt)

EnterFailureLikeErrorWitness ==
    /\ pc = "raised"
    /\ started = 2
    /\ failures = 2
    /\ events_total = 1
    /\ emitted = <<ErrorEvent("")>>
    /\ last_error = "Unknown Gemini error"

\* the transport of the attempt has raised (before it yielded any error event)
TransportRaised == failed /\ ~HasKind(emitted, "error")

\* C15: no exception of a transport is raised to the caller: the pump task
\* never ends with one, stream() never re-raises one from await pump_task,
\* and whenever the factory, enter, production or exit has raised, the pump
\* has put an error event with the exception's message and then __end__,
\* which fails the attempt like any error event once stream() takes it
OnlyStreamError ==
    /\ pc /= "propagated"
    /\ pump_exc = NoError
    /\ TransportRaised =>
          /\ pump_task = "done"
          /\ Len(PumpItems) >= 2
          /\ PumpItems[Len(PumpItems)] = EndEvent
          /\ PumpItems[Len(PumpItems) - 1] \in
                {ErrorEvent(FactoryMsg), ErrorEvent(EnterMsg), ErrorEvent(IterMsg),
                 ErrorEvent("boom:" \o endpoint_used)}
          /\ ~Reading =>
                /\ ~success
                /\ last_error = PumpItems[Len(PumpItems) - 1].text
                /\ pc \in {"cleanup", "sleep", "start", "raised", "cancelled"}

OnlyStreamErrorWitness ==
    /\ pc = "raised"
    /\ TransportRaised
    /\ Len(emitted) >= 2
    /\ last_error = IterMsg
    /\ started = 2

\* C16: when stream() raises StreamError its cause carries the message of
\* the error item that ended the last attempt, read from that attempt's
\* queue, and "Unknown Gemini error" when that item's text is empty
LastErrorCarried ==
    pc = "raised" =>
      /\ Taken >= 1
      /\ enqueued[Taken].event = "error"
      /\ last_error = IF enqueued[Taken].text \in {"", NoText}
                      THEN "Unknown Gemini error"
                      ELSE enqueued[Taken].text
      /\ last_error /= NoError

LastErrorCarriedWitness ==
    /\ pc = "raised"
    /\ started = 3
    /\ last_error = IterMsg
    /\ events_total >= 1
    /\ produced = <<>>

\* C17: when the caller closes the stream after a forwarded event, stream()
\* only unwinds: it awaits the cancelled pump task first and the cancelled
\* heartbeat task after it; once the pump task has been awaited every
\* transport of the call that was entered has been exited; when the close
\* completes no pump or heartbeat task of the call is alive; and from the
\* close on no attempt is started, no transport yields an event and no
\* event is forwarded
CloseStopsAll ==
    /\ [](/\ unwound = "close" => pc \in {"closing", "closed"}
          /\ pc = "closing" =>
                /\ awaiting \in {"pump_task", "heartbeat_task"}
                /\ awaiting = "heartbeat_task" =>
                      /\ pump_task = "done"
                      /\ Alive("pump") = {}
                      /\ exits = entered
          /\ pc = "closed" =>
                /\ alive = {}
                /\ pump_task = "done"
                /\ heartbeat_task \in {"none", "cancelled"}
                /\ exits = entered)
    /\ [][(unwound = "close" =>
              (/\ started' = started
               /\ events_total' = events_total
               /\ delivered' = delivered))]_vars

\* a close after a heartbeat and a chunk, with the transport entered: the
\* close has completed behind both awaits
CloseStopsAllWitness ==
    /\ pc = "closed"
    /\ heartbeat_task = "cancelled"
    /\ entered >= 1
    /\ exits = entered
    /\ Len(delivered) >= 2
    /\ Len(emitted) >= 2
    /\ queue /= <<>>

\* C18: a cancellation delivered while stream() waits for the next queue
\* item or sleeps for backoff takes effect there: stream() only unwinds,
\* at once from the sleep, and from then on no attempt is started, no
\* transport yields an event and no event is forwarded; when the
\* cancellation has left stream() no pump or heartbeat task is alive. A
\* cancellation delivered to the heartbeat task in its sleep takes effect
\* there: the task puts no further heartbeat and does nothing but finish
CancelPropagates ==
    /\ [](/\ unwound \in {"get", "sleep"} => pc \in {"cancelling", "cancelled"}
          /\ unwound = "sleep" => pc = "cancelled"
          /\ pc = "cancelling" => /\ unwound = "get"
                                  /\ awaiting \in {"pump_task", "heartbeat_task"}
          /\ pc = "cancelled" =>
                /\ alive = {}
                /\ started > 0 => pump_task = "done"
                /\ heartbeat_task \in {"none", "cancelled"})
    /\ [][(unwound \in {"get", "sleep"} =>
              (/\ started' = started
               /\ events_total' = events_total
               /\ delivered' = delivered))]_vars
    /\ [][(heartbeat_task = "cancelling" =>
              (/\ beats' = beats
               /\ OfKinds(enqueued', {"heartbeat"}) = OfKinds(enqueued, {"heartbeat"})
               /\ heartbeat_task' \in {"cancelling", "cancelled"}))]_vars

\* the backoff sleep behind a failed attempt of a call with heartbeats was
\* cancelled: the heartbeat task had been cancelled and awaited before it
CancelPropagatesWitness ==
    /\ pc = "cancelled"
    /\ unwound = "sleep"
    /\ config.heartbeat_interval > 0
    /\ heartbeat_task = "cancelled"
    /\ attempt = 1
    /\ started = 1
    /\ Len(sleeps) = 1

RECURSIVE FoldText(_)
\* the texts of the chunk events that carry a non-empty text, concatenated
\* in order
FoldText(events) ==
    IF events = <<>> THEN ""
    ELSE LET e == Head(events) IN
         (IF e.event = "chunk" /\ e.text /= "" /\ e.text /= NoText
          THEN e.text ELSE "") \o FoldText(Tail(events))

\* the events that count for the text
Stitched(events) ==
    SelectSeq(events, LAMBDA e : e.event = "chunk" /\ e.text /= "" /\ e.text /= NoText)

\* C19: the accumulator is a fold over the events pushed: its text is the
\* concatenation, in push order, of the texts of the chunk events with a
\* non-empty text, and the other events (another kind, an empty or missing
\* text) leave it as it was: _parts holds one entry per such chunk
AccumulatorFold ==
    /\ text(acc_parts) = FoldText(pushed)
    /\ acc_parts = Texts(Stitched(pushed))

AccumulatorFoldWitness ==
    /\ pushed = <<Chunk("A"), ErrorEvent("x"), Chunk("B")>>
    /\ text(acc_parts) = "AB"

\* C20: heartbeats are transparent: the text of an accumulator fed a
\* sequence of events equals the text of one fed the same sequence without
\* its heartbeat events
HeartbeatTransparent ==
    text(acc_parts) = text(PushAll(<<>>, NoHeartbeats(pushed)))

HeartbeatTransparentWitness ==
    /\ Len(pushed) = 3
    /\ pushed[1] = Chunk("A")
    /\ pushed[2].event = "heartbeat"
    /\ pushed[3] = Chunk("B")
    /\ text(acc_parts) = "AB"

(* ---------------------------------------------------------------------- *)
(* Properties of GoogleGenerativeAITransport                               *)

\* the events without the __end__ sentinels
BeforeEnd(events) == SelectSeq(events, LAMBDA e : e.event /= "__end__")

\* the chunk events of the first n backend chunks, in backend order
BackendChunks(n) == [k \in 1..n |-> Chunk(ChunkText(k - 1))]

\* the worker has left the backend call, whatever the transport did meanwhile
WorkerPastBackend ==
    /\ worker \in {"finally", "finally_put", "returning", "done"}
    /\ backend \in {"ended", "raised"}

\* C21: what the worker hands over is one chunk event per backend chunk, in
\* backend order, then exactly one terminal event: complete if the backend
\* iteration ended, error with the exception message if setup or iteration
\* raised, never both
WorkerSequence ==
    LET body == BeforeEnd(handed)
        n == Len(Chunks(handed))
    IN /\ IsPrefix(BackendChunks(n), body)
       /\ WorkerPastBackend /\ backend = "ended" =>
              body = Append(BackendChunks(n), Complete)
       /\ WorkerPastBackend /\ backend = "raised" =>
              body = Append(BackendChunks(n), ErrorEvent(exc))

\* C22: the worker finishes by handing over __end__ as its last item, in
\* every interleaving with __aenter__ and __aexit__
EndIsLast ==
    worker = "done" => handed /= <<>> /\ handed[Len(handed)] = EndEvent

\* C23: iter_messages yields exactly the events the worker handed over
\* before __end__, in hand-over order: the events yielded, then those in
\* the queue, then those whose put is scheduled, are the events handed
\* over, and iteration ends when __end__ is dequeued, with nothing left
DrainsInOrder ==
    /\ out \o BeforeEnd(channel \o scheduled) = BeforeEnd(handed)
    /\ consumer = "reading" => out \o channel \o scheduled = handed
    /\ consumer = "ended" =>
          /\ channel = <<>> /\ scheduled = <<>>
          /\ handed = Append(out, EndEvent)

DrainsInOrderWitness ==
    /\ consumer = "ended"
    /\ out = <<Chunk("A"), Chunk("B"), Complete>>

\* a worker stuck in the blocking backend call
WorkerStuck == worker \in {"setup", "iterating"}

\* C24: __aexit__ always completes: a join that has begun returns, also
\* when the worker never leaves the backend call
ExitCompletes == consumer = "joining" ~> consumer = "exited"

ExitCompletesWitness ==
    /\ consumer = "exited"
    /\ joins = 1
    /\ WorkerStuck

\* C25: the worker is joined at most once, whatever number of __aexit__
\* calls are made
JoinedAtMostOnce == joins <= 1

JoinedAtMostOnceWitness ==
    /\ exit_calls = 2
    /\ joins = 1
    /\ IsAlive
    /\ consumer = "exited"

\* C26: in every attempt in which __aenter__ is invoked __aexit__ is invoked
\* afterwards, exactly once: no more exits than enters, at most the attempt
\* in progress not exited yet, and none once the pump task is done
ExitForEveryEnter ==
    /\ exits <= enters
    /\ enters <= exits + 1
    /\ pump_task = "done" => exits = enters

\* C27: once __aexit__ has returned the worker hands over no further chunk
\* event
NoChunkAfterExit ==
    consumer = "exited" =>
        \A i \in (handed_at_exit + 1)..Len(handed) : handed[i].event /= "chunk"

(* ---------------------------------------------------------------------- *)
(* Properties of build_stream_config                                       *)

\* the override if it is set, else the default
OverrideOr(override, default) == IF override /= None THEN override[1] ELSE default

\* a segment of a comma-separated value: not empty, no comma, no whitespace at
\* either end
Trimmed(segment) ==
    /\ segment /= <<>>
    /\ \A i \in 1..Len(segment) : segment[i] /= ","
    /\ segment[1] \notin Whitespace /\ segment[Len(segment)] \notin Whitespace

\* C28: build_stream_config returns a configuration in which model, endpoint,
\* fallback_endpoints, request_timeout, heartbeat_interval, max_retries,
\* backoff_base and backoff_max each equal the override when it is set and
\* the project default otherwise; fallback_endpoints from the override is the
\* value split at the commas, trimmed, without the empty segments
BuildsFromOverrides ==
    settings_pc = "built" =>
        /\ stream_config.raised = NoError
        /\ LET built == stream_config.value
               env == environment
               defaults == gemini_defaults
           IN /\ built.model = OverrideOr(env.model_override, defaults.model)
              /\ built.endpoint = OverrideOr(env.endpoint_override,
                                             defaults.primary_endpoint)
              /\ built.request_timeout = OverrideOr(env.request_timeout_override,
                                                    defaults.request_timeout_seconds)
              /\ built.heartbeat_interval = OverrideOr(env.heartbeat_override,
                                                       defaults.heartbeat_interval_seconds)
              /\ built.max_retries = OverrideOr(env.max_retries_override,
                                                defaults.max_retries)
              /\ built.backoff_base = OverrideOr(env.backoff_base_override,
                                                 defaults.backoff.factor)
              /\ built.backoff_max = OverrideOr(env.backoff_max_override,
                                                defaults.backoff.max_delay_seconds)
              /\ env.fallback_override = None =>
                     built.fallback_endpoints = defaults.fallback_endpoints
              /\ env.fallback_override /= None =>
                     /\ built.fallback_endpoints = split_csv(env.fallback_override)
                     /\ \A i \in 1..Len(built.fallback_endpoints) :
                            Trimmed(built.fallback_endpoints[i])

(* ---------------------------------------------------------------------- *)
(* Properties of CommandRunner.run                                         *)

\* the labels of the results
Labels(rs) == [i \in 1..Len(rs) |-> rs[i].label]

\* C29: the commands are executed in the given order, one at a time:
\* results has one entry per executed command, in command order; with
\* stop_on_failure the run stops after the first result that is not
\* passed, which is the last entry, and no later command is started;
\* without stop_on_failure a run that returns has executed every command
StopsOnFirstFailure ==
    /\ Labels(results) = [i \in 1..Len(results) |-> i]
    /\ Len(results) <= Len(commands)
    /\ \A i \in 1..Len(spawned) : spawned[i] <= Len(results) + 1
    /\ run_pc = "executing" => position = Len(results) + 1
    /\ stop_on_failure =>
          \A i \in 1..Len(results) :
             ~passed(results[i]) => i = Len(results) /\ run_pc = "returned"
    /\ run_pc = "returned" =>
          /\ \A i \in 1..Len(spawned) : spawned[i] <= Len(results)
          /\ \/ Len(results) = Len(commands)
             \/ stop_on_failure /\ results /= <<>> /\ ~passed(results[Len(results)])
    /\ run_pc = "returned" /\ ~stop_on_failure => Len(results) = Len(commands)

StopsOnFirstFailureWitness ==
    /\ run_pc = "returned"
    /\ stop_on_failure
    /\ Len(commands) = 3
    /\ Len(results) = 2
    /\ results[2].returncode = 2
    /\ spawned = <<1, 2>>

\* C30: a command with allow_failure that exits non-zero or times out gives
\* a passed result and never stops the run; a command without allow_failure
\* is passed exactly when it did not time out and its return code is 0
AllowFailurePasses ==
    /\ \A i \in 1..Len(results) :
          LET result == results[i] IN
          /\ result.allow_failure => passed(result)
          /\ ~result.allow_failure =>
                (passed(result) <=> ~result.timed_out /\ result.returncode = 0)
    /\ run_pc = "returned" /\ Len(results) < Len(commands) =>
          ~results[Len(results)].allow_failure

AllowFailurePassesWitness ==
    /\ run_pc = "returned"
    /\ stop_on_failure
    /\ Len(results) = 3
    /\ results[1].allow_failure /\ results[1].returncode = 2
    /\ results[2].allow_failure /\ results[2].timed_out
    /\ passed(results[1]) /\ passed(results[2])

(* ---------------------------------------------------------------------- *)
(* Properties of the landing API                                           *)

\* the pages one after the other
RECURSIVE Flatten(_)
Flatten(pages) == IF pages = <<>> THEN <<>> ELSE Head(pages) \o Flatten(Tail(pages))

\* the stored task list the client reads
WalkTasks == TasksGet(store, <<"monorepo", walk.branch, walk.collection>>)

\* C31: reading with no cursor first and then with the returned next_cursor
\* gives consecutive pages of at most page_size tasks whose concatenation is
\* the stored list, each task once and in stored order; next_cursor is the
\* decimal index of the next unread task while tasks remain and None exactly
\* on the page that reaches the end of the list
CursorPagination ==
    landing_pc = "paging" =>
        LET read == Flatten(walk.pages) IN
        /\ IsPrefix(read, WalkTasks)
        /\ \A i \in 1..Len(walk.pages) : Len(walk.pages[i]) <= walk.page_size
        /\ walk.pages /= <<>> /\ ~walk.done =>
              /\ walk.cursor = Some(Str(Len(read)))
              /\ Len(read) < Len(WalkTasks)
        /\ walk.done => read = WalkTasks /\ walk.cursor = None
        /\ walk.pages /= <<>> /\ read = WalkTasks => walk.done

CursorPaginationWitness ==
    /\ landing_pc = "paging"
    /\ walk.done
    /\ walk.page_size = 2
    /\ walk.pages = <<<<1, 2>>, <<3, 4>>>>

\* the workspace and the branch of the request are known to the store
KnownSelection ==
    \E i \in 1..Len(store.workspaces) :
       /\ store.workspaces[i].id = request.workspace
       /\ request.branch \in store.workspaces[i].branches

\* the characters are an integer as int() reads one: decimal digits,
\* possibly grouped by single underscores, possibly signed, with whitespace
\* around
IsInteger(chars) ==
    \E i, j \in 1..Len(chars) :
       /\ \A k \in 1..Len(chars) :
             k < i \/ k > j => chars[k] \in Whitespace /\ chars[k] /= "U+001C"
       /\ \/ Grouped(SubSeq(chars, i, j))
          \/ chars[i] \in {"+", "-"} /\ Grouped(SubSeq(chars, i + 1, j))

\* the characters are an integer below 0
IsNegative(chars) ==
    /\ IsInteger(chars)
    /\ \E i \in 1..Len(chars) : chars[i] = "-"
    /\ \E i \in 1..Len(chars) : IsDigit(chars[i]) /\ DigitValue(chars[i]) /= 0

\* the prompt is empty after trimming
Blank(prompt) == \A i \in 1..Len(prompt) : prompt[i] \in Whitespace

\* what the claims say of the requests that name an unknown workspace or
\* branch, of the prompt submissions, and of the store
OutcomesBesideCursor ==
    /\ store = store_created
    /\ request.route \in {"tasks", "prompts"} /\ ~KnownSelection =>
          response.status = 404
    /\ request.route = "prompts" /\ KnownSelection /\ Blank(request.prompt) =>
          response.status = 400
    /\ request.route = "prompts" /\ KnownSelection /\ ~Blank(request.prompt) =>
          /\ response.status = 202
          /\ IsPrefix(<<"j", "o", "b", "_">>, response.job_id)

\* C32 as stated: unknown workspace or branch gives 404, a tasks query with a
\* cursor that is not an integer or is negative gives 400, a blank prompt
\* 400, a valid prompt 202 with a job id starting with job_, and the store
\* is not changed
LandingOutcomesAsStated ==
    landing_pc = "serving" =>
        /\ OutcomesBesideCursor
        /\ request.route = "tasks" /\ KnownSelection /\ request.cursor /= None
              /\ (~IsInteger(request.cursor[1]) \/ IsNegative(request.cursor[1])) =>
              response.status = 400

\* C32: the same, for the cursors that are not empty: an empty cursor is read
\* as no cursor and the query answers 200 with the first page
LandingOutcomes ==
    landing_pc = "serving" =>
        /\ OutcomesBesideCursor
        /\ request.route = "tasks" /\ KnownSelection /\ request.cursor /= None =>
              /\ request.cursor[1] /= <<>>
                   /\ (~IsInteger(request.cursor[1]) \/ IsNegative(request.cursor[1])) =>
                    response.status = 400
              /\ request.cursor[1] = <<>> =>
                    /\ response.status = 200
                    /\ IsPrefix(response.tasks, TasksGet(store,
                          <<request.workspace, request.branch, request.collection>>))

LandingOutcomesWitness ==
    /\ landing_pc = "serving"
    /\ request.route = "tasks"
    /\ KnownSelection
    /\ request.cursor = Some(<<"1", ".", "5">>)
    /\ response.status = 400


\* stream() is inside an attempt: in the inner loop or in the finally block
InAttempt == pc \in {"get", "yielded", "cleanup", "closing", "cancelling"}

\* C33: heartbeats are produced only while an attempt is in progress: a
\* heartbeat task that has not finished is the one created with the attempt
\* in progress, so at most one is alive, and it has finished when the
\* finally block of the attempt is over; the heartbeats forwarded in an
\* attempt are heartbeats its own task put on its own queue; outside an
\* attempt (before the next attempt, in a backoff sleep, after the call has
\* ended) no heartbeat timer fires and nothing is forwarded
HeartbeatsOnlyInAttempt ==
    /\ [](/\ \A t \in Alive("heartbeat") : t[2] = started /\ InAttempt
          /\ Cardinality(Alive("heartbeat")) <= 1
          /\ heartbeat_task \in {"sleeping", "cancelling"} =>
                Task("heartbeat", started) \in alive
          /\ ~InAttempt => heartbeat_task \in {"none", "cancelled"}
          /\ InAttempt =>
                Len(OfKinds(Forwarded, {"heartbeat"}))
                    <= Len(OfKinds(enqueued, {"heartbeat"})))
    /\ [][(~InAttempt => (beats' = beats /\ delivered' = delivered))]_vars

\* a backoff sleep after an attempt whose heartbeat task ticked: the task
\* was cancelled and awaited, and its heartbeat lies unread on the abandoned
\* queue
HeartbeatsOnlyInAttemptWitness ==
    /\ pc = "sleep"
    /\ heartbeat_task = "cancelled"
    /\ alive = {}
    /\ HasKind(queue, "heartbeat")


\* C34: whenever stream ends normally, a complete event was forwarded to the
\* caller as the last event of the call.
NormalEndAfterComplete ==
    pc = "returned" =>
        /\ delivered /= <<>>
        /\ delivered[Len(delivered)].event = "complete"

\* the same for calls in which no heartbeat was forwarded: a normal end
\* whose last attempt forwarded no complete at all
NormalEndWithoutComplete ==
    pc = "returned" /\ ~HasKind(delivered, "heartbeat")
        => HasKind(Forwarded, "complete")


\* C35: termination: when every transport terminates and the caller keeps
\* pulling, under fair scheduling every call of stream() eventually ends,
\* normally or by raising GeminiStreamError; in particular the consumer does
\* not wait forever at queue.get().
Termination == <>(pc \in {"returned", "raised"})

\* a call that ended by raising after a retry: both ways of ending occur
TerminationWitness ==
    /\ pc = "raised"
    /\ started = 2
    /\ sleeps /= <<>>
    /\ delivered /= <<>>


\* C36: a backoff sleep happens exactly once between a failed attempt and
\* the next attempt and nowhere else: none before the first attempt, one
\* before every later attempt, none after a successful attempt and none
\* after the last failed attempt, so a call that has ended made one sleep
\* less than it started attempts.
SleepsBetweenAttempts ==
    /\ started = 0 => sleeps = <<>>
    /\ pc = "sleep" => ~success /\ Len(sleeps) = started
    /\ pc = "start" /\ started > 0 => Len(sleeps) = started
    /\ InAttempt \/ Terminal => Len(sleeps) = started - 1

\* a call that raised after three attempts and two sleeps
SleepsBetweenAttemptsWitness ==
    /\ pc = "raised"
    /\ started = 3
    /\ Len(sleeps) = 2


\* C37: isolation of abandoned workers: every event a worker hands over
\* goes to the queue its own attempt's transport created and to no other,
\* also when the worker was abandoned by exit and hands it over while a
\* later attempt runs; the pump of attempt j takes from its transport's
\* queue, puts on the merge queue, and ends its iteration on, items the
\* worker of attempt j made and no others; every event yielded to the
\* caller in attempt j was made by the worker of attempt j; and once the
\* call has ended nothing more is put on the merge queue or yielded
WorkersIsolated ==
    /\ [](/\ \A i \in 1..MaxWorkers : \A k \in 1..Len(tr[i].channel) :
               tr[i].channel[k].by = i
          /\ \A k \in 1..Len(loop_puts) : loop_puts[k].to = loop_puts[k].item.by
          /\ \A i \in 1..MaxWorkers : tr[i].ended_by \in {0, i}
          /\ \A k \in 1..Len(merge) : merge[k].by = iso_attempt
          /\ \A k \in 1..Len(visible) : visible[k].attempt = visible[k].item.by)
    /\ [][(iso_pc \in {"returned", "raised"} =>
              (visible' = visible /\ merge' = merge))]_vars

\* the worker of attempt 1, abandoned by exit while it was running, has
\* handed __end__ over after attempt 2 started; it lies on the queue of
\* attempt 1 while the worker of attempt 2 is running and the caller has
\* been yielded an event of attempt 2
WorkersIsolatedWitness ==
    /\ iso_attempt = 2
    /\ tr[1].abandoned
    /\ tr[1].late > 0
    /\ tr[1].channel /= <<>>
    /\ WorkerAlive(2)
    /\ iso_pc = "get"
    /\ visible /= <<>>
    /\ visible[Len(visible)].attempt = 2


\* C39: in the automation run mode the exit status of the process is 0 if
\* and only if every executed command's result is passed, with and without
\* keep-going.
ExitZeroIffAllPassed ==
    exit_status /= None /\ run_pc = "returned" =>
        (exit_status = Some(0) <=> \A i \in 1..Len(results) : passed(results[i]))


\* C38: a cancellation delivered while stream() is inside an attempt's
\* cleanup, awaiting the cancelled pump task or heartbeat task, is not
\* lost: the call ends by propagating it and does not go on to the backoff
\* sleep, another attempt, a normal return or GeminiStreamError.
CleanupCancelPropagates ==
    unwound = "cleanup" => pc \in {"cleanup", "cancelled"}

====
